---- MODULE Spec2Model ----
(***************************************************************************)
(* CookieControl: the permission-state engine, the base-domain resolver,   *)
(* the popup's permission button, the background's cookie handlers with    *)
(* their operation log, and the UI store.                                  *)
(*                                                                         *)
(* Strings are sequences of characters.  The alphabet is abstract: "."     *)
(* and "," are the separators the code splits on, "*://", "*" and "/*"     *)
(* are the fixed pieces of an origin pattern, and every other character    *)
(* stands for a run of letters that the code never looks into ("www",      *)
(* "co", "google", ...).  Concatenation, split, join, startsWith and       *)
(* endsWith are computed on these sequences.                               *)
(***************************************************************************)
EXTENDS Integers, Sequences, FiniteSets, Bags, TLC

VARIABLES
    pc,              \* position of the running specification
    hostname,        \* argument: hostname
    baseDomain,      \* argument: base domain
    grantedOrigins,  \* argument: the granted-origins list
    resolved,        \* result of getBaseDomain(hostname)
    ps,              \* result of computePermissionState
    cfg,             \* result of buildPermissionButtonConfig
    prevPs,          \* the permission state before the last grant / revoke
    state,           \* popup: state.viewMode, state.currentHost, state.currentBaseDomain
    btn,             \* popup: #permission-btn (display, action, origin, revoke class)
    permissions,     \* browser: the set of granted origin patterns
    request,         \* popup -> background: the permission messages awaiting their answer
    page,            \* popup: the 'all' tab's warning, search box and bulk-delete button
    pending,         \* popup: the updatePermissionUI runs awaiting the background's answer
    resolvedAgain,   \* result of getBaseDomain(resolved)
    prevBtn,         \* the site button rendered from the granted list as first given
    chrome,          \* the browser API as getPartitionKey finds it, with the calls made on it
    tabId,           \* argument: params.tabId
    partitionKey,    \* result of getPartitionKey
    revokes,         \* popup: successive revoke clicks answered so far
    cookieStore,     \* browser: the cookies in the cookie store
    response,        \* background: the answer passed to sendResponse
    message,         \* background: the message being handled
    opLog,           \* background: the operation log in storage, newest first
    tasks,           \* background: the removeCookie calls in flight
    cursor,          \* background: entries of the message array already handled
    count,           \* background: the local count / deletedCount
    store,           \* UI store: state, storage area, events in flight
    lastSet          \* UI store: the patch and the result of the last set

vars == <<pc, hostname, baseDomain, grantedOrigins, resolved, ps, cfg, prevPs,
          state, btn, permissions, request, page, pending, resolvedAgain, prevBtn,
          chrome, tabId, partitionKey, revokes,
          cookieStore, response,
          message, opLog, tasks, cursor, count, store, lastSet>>

----------------------------------------------------------------------------
(* Bounds *)

MaxLabels == 4     \* labels per hostname tried on the resolver
MaxGranted == 4    \* length of the granted-origins lists tried on the engine
MaxInFlight == 2   \* popup: updatePermissionUI runs awaiting their answer
MaxClicks == 2     \* popup: permission messages awaiting their answer
MaxRevokes == 4    \* popup: successive revoke clicks followed from one granted set
MaxOrderings == 2  \* popup: orders in which the browser lists one set of granted origins
MaxCookies == 3    \* background: cookies in the cookie store
MaxPersists == 2   \* UI store: writes and change events in flight
MaxEntries == 3    \* background: entries of an imported array

----------------------------------------------------------------------------
(* JavaScript values and string primitives *)

Null == <<"#null">>            \* null / undefined
EmptyStr == <<>>              \* ''
Dot == "."
Comma == ","

Falsy(s) == s = Null \/ s = EmptyStr

StartsWith(s, p) ==
    /\ Len(p) <= Len(s)
    /\ SubSeq(s, 1, Len(p)) = p

EndsWith(s, p) ==
    /\ Len(p) <= Len(s)
    /\ SubSeq(s, Len(s) - Len(p) + 1, Len(s)) = p

\* String.prototype.split(sep) for a one-character separator: '' gives [''].
RECURSIVE Split(_, _)
Split(s, sep) ==
    IF \A i \in 1..Len(s) : s[i] # sep
    THEN <<s>>
    ELSE LET i == CHOOSE k \in 1..Len(s) :
                      s[k] = sep /\ \A j \in 1..(k - 1) : s[j] # sep
         IN <<SubSeq(s, 1, i - 1)>> \o Split(SubSeq(s, i + 1, Len(s)), sep)

\* Array.prototype.join(sep): [] gives ''.
RECURSIVE Join(_, _)
Join(parts, sep) ==
    IF Len(parts) = 0 THEN EmptyStr
    ELSE IF Len(parts) = 1 THEN parts[1]
    ELSE parts[1] \o <<sep>> \o Join(Tail(parts), sep)

\* Array.prototype.slice(-k)
SliceLast(parts, k) ==
    IF Len(parts) <= k THEN parts ELSE SubSeq(parts, Len(parts) - k + 1, Len(parts))

Includes(list, x) == \E i \in 1..Len(list) : list[i] = x

Range(list) == {list[i] : i \in 1..Len(list)}

----------------------------------------------------------------------------
(* Base-domain resolver *)

commonTlds == {<<"co">>, <<"com">>, <<"net">>, <<"org">>, <<"gov">>, <<"edu">>}

\* Mutant of getBaseDomain: a short hostname is returned with its leading dot.
getBaseDomain_keepsLeadingDot(h) ==
    IF Falsy(h) THEN EmptyStr
    ELSE LET cleanHostname == IF StartsWith(h, <<Dot>>) THEN Tail(h) ELSE h
             parts == Split(cleanHostname, Dot)
         IN IF Len(parts) <= 2 THEN h
            ELSE IF Len(parts) > 2 /\ parts[Len(parts) - 1] \in commonTlds
                 THEN Join(SliceLast(parts, 3), Dot)
                 ELSE Join(SliceLast(parts, 2), Dot)

getBaseDomain(h) ==
    IF Falsy(h) THEN EmptyStr
    ELSE LET cleanHostname == IF StartsWith(h, <<Dot>>) THEN Tail(h) ELSE h
             parts == Split(cleanHostname, Dot)
         IN IF Len(parts) <= 2 THEN cleanHostname
            ELSE IF Len(parts) > 2 /\ parts[Len(parts) - 1] \in commonTlds
                 THEN Join(SliceLast(parts, 3), Dot)
                 ELSE Join(SliceLast(parts, 2), Dot)

----------------------------------------------------------------------------
(* Origin patterns *)

AllUrls == <<"<all_urls>">>

HostPattern(h) == <<"*://">> \o h \o <<"/*">>          \* `*://${currentHost}/*`
BasePattern(b) == <<"*://">> \o b \o <<"/*">>          \* `*://${currentBaseDomain}/*`

\* Mutant of WildcardPattern: the wildcard pattern is the base domain's own pattern.
WildcardPattern_baseItself(b) == <<"*://">> \o b \o <<"/*">>

WildcardPattern(b) == <<"*://", "*", Dot>> \o b \o <<"/*">>   \* `*://*.${currentBaseDomain}/*`

WwwOf(b) == <<"www", Dot>> \o b                        \* `www.${currentBaseDomain}`

\* sanitizeOriginsInput: '<all_urls>' is kept; a pattern is kept when it reads
\* scheme://host/... with a non-empty host of the shape *, *.name or name; the
\* pattern *://*/* becomes '<all_urls>'; duplicates are dropped, order is kept.
HostChars(h) == \A i \in 1..Len(h) : h[i] \notin {"*://", "/*", "*", Comma, "<all_urls>"}

ValidHost(h) ==
    \/ h = <<"*">>
    \/ Len(h) >= 3 /\ h[1] = "*" /\ h[2] = Dot /\ HostChars(SubSeq(h, 3, Len(h)))
    \/ Len(h) >= 1 /\ HostChars(h)

ValidOrigin(o) ==
    \/ o = AllUrls
    \/ /\ o # Null
       /\ Len(o) >= 3
       /\ o[1] = "*://"
       /\ o[Len(o)] = "/*"
       /\ ValidHost(SubSeq(o, 2, Len(o) - 1))

NormalizeOrigin(o) == IF o = <<"*://", "*", "/*">> THEN AllUrls ELSE o

RECURSIVE Dedupe(_)
Dedupe(list) ==
    IF Len(list) = 0 THEN <<>>
    ELSE LET rest == Dedupe(SubSeq(list, 1, Len(list) - 1))
             x == list[Len(list)]
         IN IF Includes(rest, x) THEN rest ELSE Append(rest, x)

RECURSIVE SanitizeList(_)
SanitizeList(list) ==
    IF Len(list) = 0 THEN <<>>
    ELSE IF ValidOrigin(Head(list))
         THEN <<NormalizeOrigin(Head(list))>> \o SanitizeList(Tail(list))
         ELSE SanitizeList(Tail(list))

sanitizeOriginsInput(origins) == Dedupe(SanitizeList(origins))

\* permissionsContains: false for an empty sanitized list, else the browser's
\* answer, taken as inclusion of every listed pattern in the granted set.
permissionsContains(origins, perms) ==
    LET sanitized == sanitizeOriginsInput(origins)
    IN Len(sanitized) > 0 /\ \A i \in 1..Len(sanitized) : sanitized[i] \in perms

----------------------------------------------------------------------------
(* Permission state engine (permissionHelpers.js) *)

\* Contract B: hostname === baseDomain or hostname === "www." + baseDomain;
\* false when both inputs are falsy.
isBaseHost(h, b) ==
    IF Falsy(h) /\ Falsy(b) THEN FALSE
    ELSE h = b \/ (b # Null /\ h = WwwOf(b))

\* Contract A: all null without a base domain; host null without a hostname.
buildPatterns(h, b) ==
    IF Falsy(b)
    THEN [host |-> Null, baseOnly |-> Null, wildcard |-> Null]
    ELSE [host     |-> IF Falsy(h) THEN Null ELSE HostPattern(h),
          baseOnly |-> BasePattern(b),
          wildcard |-> WildcardPattern(b)]

\* Contract C, step 5: strict precedence, the most powerful grant wins.
resolveEffective(isBaseDomain, hasGlobal, hasWildcard, hasBaseOnly, hasHost) ==
    IF hasGlobal THEN "global"
    ELSE IF hasWildcard THEN "wildcard"
    ELSE IF isBaseDomain
         THEN (IF hasBaseOnly THEN "baseOnly" ELSE "none")
         ELSE (IF hasHost /\ hasBaseOnly THEN "pair" ELSE "none")

\* Mutant of grantMissingOf: the missing patterns are listed whatever the tier.
grantMissingOf_whateverTier(effective, isBaseDomain, hasBaseOnly, hasHost, p) ==
    IF isBaseDomain
    THEN (IF p.baseOnly # Null THEN <<p.baseOnly>> ELSE <<>>)
    ELSE (IF ~hasHost /\ p.host # Null THEN <<p.host>> ELSE <<>>)
         \o (IF ~hasBaseOnly /\ p.baseOnly # Null THEN <<p.baseOnly>> ELSE <<>>)

\* Contract C, step 6: computed only when effective is 'none'; host first.
grantMissingOf(effective, isBaseDomain, hasBaseOnly, hasHost, p) ==
    IF effective # "none" THEN <<>>
    ELSE IF isBaseDomain
         THEN (IF p.baseOnly # Null THEN <<p.baseOnly>> ELSE <<>>)
         ELSE (IF ~hasHost /\ p.host # Null THEN <<p.host>> ELSE <<>>)
              \o (IF ~hasBaseOnly /\ p.baseOnly # Null THEN <<p.baseOnly>> ELSE <<>>)

\* Mutant of revokeTargetOf: the wildcard is named while the sentinel is in force.
revokeTargetOf_wildcardUnderGlobal(effective, p) ==
    CASE effective = "global"   -> p.wildcard
      [] effective = "wildcard" -> p.wildcard
      [] effective = "baseOnly" -> p.baseOnly
      [] effective = "pair"     -> p.host
      [] OTHER                  -> Null

\* Contract C, step 7.
revokeTargetOf(effective, p) ==
    CASE effective = "global"   -> AllUrls
      [] effective = "wildcard" -> p.wildcard
      [] effective = "baseOnly" -> p.baseOnly
      [] effective = "pair"     -> p.host
      [] OTHER                  -> Null

\* Contract C, steps 1-7.
computePermissionState(h, b, granted) ==
    LET set == Range(granted)
        isBaseDomain == isBaseHost(h, b)
        p == buildPatterns(h, b)
        hasGlobal == AllUrls \in set
        hasWildcard == p.wildcard # Null /\ p.wildcard \in set
        hasBaseOnly == p.baseOnly # Null /\ p.baseOnly \in set
        hasHost == p.host # Null /\ p.host \in set
        effective == resolveEffective(isBaseDomain, hasGlobal, hasWildcard, hasBaseOnly, hasHost)
    IN [isBaseDomain |-> isBaseDomain,
        hasGlobal    |-> hasGlobal,
        hasWildcard  |-> hasWildcard,
        hasBaseOnly  |-> hasBaseOnly,
        hasHost      |-> hasHost,
        effective    |-> effective,
        grantMissing |-> grantMissingOf(effective, isBaseDomain, hasBaseOnly, hasHost, p),
        revokeTarget |-> revokeTargetOf(effective, p)]

----------------------------------------------------------------------------
(* Permission button config (permissionsUi.js) *)

\* allPermsWarning is set in the 'all' view only (undefined, read as false, elsewhere).
ButtonConfig(visible, text, action, origins, revokeClass) ==
    [visible |-> visible, text |-> text, action |-> action,
     origins |-> origins, revokeClass |-> revokeClass, allPermsWarning |-> FALSE]

\* Mutant of IsBaseDomainView: any one-label prefix makes a host base-equivalent.
IsBaseDomainView_anyPrefix(currentHost, currentBaseDomain) ==
    \/ currentHost = currentBaseDomain
    \/ /\ currentHost # Null
       /\ Len(currentHost) = Len(currentBaseDomain) + 2
       /\ currentHost[2] = Dot
       /\ EndsWith(currentHost, currentBaseDomain)

\* currentHost === currentBaseDomain || currentHost === `www.${currentBaseDomain}`
IsBaseDomainView(currentHost, currentBaseDomain) ==
    \/ currentHost = currentBaseDomain
    \/ currentHost # Null /\ currentHost = WwwOf(currentBaseDomain)

\* viewMode === 'all'
allViewConfig(perms) ==
    LET hasAll == permissionsContains(<<AllUrls>>, perms)
    IN [visible |-> TRUE,
        text |-> IF hasAll THEN <<"Revoke Access">> ELSE <<"Grant Full Access">>,
        action |-> IF hasAll THEN "revoke" ELSE "grant",
        origins |-> <<AllUrls>>,
        revokeClass |-> hasAll,
        allPermsWarning |-> ~hasAll]

\* Mutant of baseDomainConfig: the base-only branch carries the wildcard pattern.
baseDomainConfig_wildcardForBaseOnly(currentBaseDomain, perms) ==
    LET baseOnly == BasePattern(currentBaseDomain)
        wildcard == WildcardPattern(currentBaseDomain)
        hasGlobal == permissionsContains(<<AllUrls>>, perms)
        hasWildcard == permissionsContains(<<wildcard>>, perms)
        hasBaseOnly == permissionsContains(<<baseOnly>>, perms)
    IN IF hasGlobal
       THEN ButtonConfig(TRUE, <<"Revoke Access">>, "revoke", <<AllUrls>>, TRUE)
       ELSE IF hasWildcard
       THEN ButtonConfig(TRUE, <<"Revoke Access for ", "*", Dot>> \o currentBaseDomain,
                         "revoke", <<wildcard>>, TRUE)
       ELSE IF hasBaseOnly
       THEN ButtonConfig(TRUE, <<"Revoke Access for ">> \o currentBaseDomain,
                         "revoke", <<wildcard>>, TRUE)
       ELSE ButtonConfig(TRUE, <<"Grant Access to ">> \o currentBaseDomain,
                         "grant", <<baseOnly>>, FALSE)

\* if (isBaseDomain) { ... }
baseDomainConfig(currentBaseDomain, perms) ==
    LET baseOnly == BasePattern(currentBaseDomain)
        wildcard == WildcardPattern(currentBaseDomain)
        hasGlobal == permissionsContains(<<AllUrls>>, perms)
        hasWildcard == permissionsContains(<<wildcard>>, perms)
        hasBaseOnly == permissionsContains(<<baseOnly>>, perms)
    IN IF hasGlobal
       THEN ButtonConfig(TRUE, <<"Revoke Access">>, "revoke", <<AllUrls>>, TRUE)
       ELSE IF hasWildcard
       THEN ButtonConfig(TRUE, <<"Revoke Access for ", "*", Dot>> \o currentBaseDomain,
                         "revoke", <<wildcard>>, TRUE)
       ELSE IF hasBaseOnly
       THEN ButtonConfig(TRUE, <<"Revoke Access for ">> \o currentBaseDomain,
                         "revoke", <<baseOnly>>, TRUE)
       ELSE ButtonConfig(TRUE, <<"Grant Access to ">> \o currentBaseDomain,
                         "grant", <<baseOnly>>, FALSE)

\* Mutant of subdomainConfig: the least powerful grant is tested first.
subdomainConfig_weakestFirst(currentHost, currentBaseDomain, perms) ==
    LET host == IF currentHost = Null THEN <<"null">> ELSE currentHost
        hostPattern == HostPattern(host)
        basePattern == BasePattern(currentBaseDomain)
        wildcard == WildcardPattern(currentBaseDomain)
        hasGlobal == permissionsContains(<<AllUrls>>, perms)
        hasWildcard == permissionsContains(<<wildcard>>, perms)
        hasHost == permissionsContains(<<hostPattern>>, perms)
        hasBase == permissionsContains(<<basePattern>>, perms)
        missing == (IF ~hasHost THEN <<hostPattern>> ELSE <<>>)
                   \o (IF ~hasBase THEN <<basePattern>> ELSE <<>>)
        displayName == IF Falsy(currentHost) THEN currentBaseDomain ELSE currentHost
    IN IF hasHost /\ hasBase
       THEN ButtonConfig(TRUE, <<"Revoke Access for ">> \o host,
                         "revoke", <<hostPattern>>, TRUE)
       ELSE IF hasWildcard
       THEN ButtonConfig(TRUE, <<"Revoke Access for ", "*", Dot>> \o currentBaseDomain,
                         "revoke", <<wildcard>>, TRUE)
       ELSE IF hasGlobal
       THEN ButtonConfig(TRUE, <<"Revoke Global Access">>, "revoke", <<AllUrls>>, TRUE)
       ELSE ButtonConfig(TRUE, <<"Grant Access to ">> \o displayName,
                         "grant", missing, FALSE)

\* Mutant of subdomainConfig: the host grant alone counts as access (|| for &&).
subdomainConfig_hostOrBase(currentHost, currentBaseDomain, perms) ==
    LET host == IF currentHost = Null THEN <<"null">> ELSE currentHost
        hostPattern == HostPattern(host)
        basePattern == BasePattern(currentBaseDomain)
        wildcard == WildcardPattern(currentBaseDomain)
        hasGlobal == permissionsContains(<<AllUrls>>, perms)
        hasWildcard == permissionsContains(<<wildcard>>, perms)
        hasHost == permissionsContains(<<hostPattern>>, perms)
        hasBase == permissionsContains(<<basePattern>>, perms)
        missing == (IF ~hasHost THEN <<hostPattern>> ELSE <<>>)
                   \o (IF ~hasBase THEN <<basePattern>> ELSE <<>>)
        displayName == IF Falsy(currentHost) THEN currentBaseDomain ELSE currentHost
    IN IF hasGlobal
       THEN ButtonConfig(TRUE, <<"Revoke Global Access">>, "revoke", <<AllUrls>>, TRUE)
       ELSE IF hasWildcard
       THEN ButtonConfig(TRUE, <<"Revoke Access for ", "*", Dot>> \o currentBaseDomain,
                         "revoke", <<wildcard>>, TRUE)
       ELSE IF hasHost \/ hasBase
       THEN ButtonConfig(TRUE, <<"Revoke Access for ">> \o host,
                         "revoke", <<hostPattern>>, TRUE)
       ELSE ButtonConfig(TRUE, <<"Grant Access to ">> \o displayName,
                         "grant", missing, FALSE)

\* Mutant of subdomainConfig: the grant asks for the host pattern only.
subdomainConfig_missingHostOnly(currentHost, currentBaseDomain, perms) ==
    LET host == IF currentHost = Null THEN <<"null">> ELSE currentHost
        hostPattern == HostPattern(host)
        basePattern == BasePattern(currentBaseDomain)
        wildcard == WildcardPattern(currentBaseDomain)
        hasGlobal == permissionsContains(<<AllUrls>>, perms)
        hasWildcard == permissionsContains(<<wildcard>>, perms)
        hasHost == permissionsContains(<<hostPattern>>, perms)
        hasBase == permissionsContains(<<basePattern>>, perms)
        missing == <<hostPattern>>
        displayName == IF Falsy(currentHost) THEN currentBaseDomain ELSE currentHost
    IN IF hasGlobal
       THEN ButtonConfig(TRUE, <<"Revoke Global Access">>, "revoke", <<AllUrls>>, TRUE)
       ELSE IF hasWildcard
       THEN ButtonConfig(TRUE, <<"Revoke Access for ", "*", Dot>> \o currentBaseDomain,
                         "revoke", <<wildcard>>, TRUE)
       ELSE IF hasHost /\ hasBase
       THEN ButtonConfig(TRUE, <<"Revoke Access for ">> \o host,
                         "revoke", <<hostPattern>>, TRUE)
       ELSE ButtonConfig(TRUE, <<"Grant Access to ">> \o displayName,
                         "grant", missing, FALSE)

\* // subdomain case
subdomainConfig(currentHost, currentBaseDomain, perms) ==
    LET host == IF currentHost = Null THEN <<"null">> ELSE currentHost
        hostPattern == HostPattern(host)
        basePattern == BasePattern(currentBaseDomain)
        wildcard == WildcardPattern(currentBaseDomain)
        hasGlobal == permissionsContains(<<AllUrls>>, perms)
        hasWildcard == permissionsContains(<<wildcard>>, perms)
        hasHost == permissionsContains(<<hostPattern>>, perms)
        hasBase == permissionsContains(<<basePattern>>, perms)
        missing == (IF ~hasHost THEN <<hostPattern>> ELSE <<>>)
                   \o (IF ~hasBase THEN <<basePattern>> ELSE <<>>)
        displayName == IF Falsy(currentHost) THEN currentBaseDomain ELSE currentHost
    IN IF hasGlobal
       THEN ButtonConfig(TRUE, <<"Revoke Global Access">>, "revoke", <<AllUrls>>, TRUE)
       ELSE IF hasWildcard
       THEN ButtonConfig(TRUE, <<"Revoke Access for ", "*", Dot>> \o currentBaseDomain,
                         "revoke", <<wildcard>>, TRUE)
       ELSE IF hasHost /\ hasBase
       THEN ButtonConfig(TRUE, <<"Revoke Access for ">> \o host,
                         "revoke", <<hostPattern>>, TRUE)
       ELSE ButtonConfig(TRUE, <<"Grant Access to ">> \o displayName,
                         "grant", missing, FALSE)

\* perms is the browser's granted set at the time of the permissionsContains calls.
\* Mutant of buildPermissionButtonConfig: no early return without a base domain.
buildPermissionButtonConfig_noBaseCheck(viewMode, currentHost, currentBaseDomain, perms) ==
    IF viewMode = "all" THEN allViewConfig(perms)
    ELSE IF IsBaseDomainView(currentHost, currentBaseDomain)
    THEN baseDomainConfig(currentBaseDomain, perms)
    ELSE subdomainConfig(currentHost, currentBaseDomain, perms)

buildPermissionButtonConfig(viewMode, currentHost, currentBaseDomain, perms) ==
    IF viewMode = "all" THEN allViewConfig(perms)
    ELSE IF Falsy(currentBaseDomain)
    THEN ButtonConfig(FALSE, EmptyStr, "grant", <<>>, FALSE)
    ELSE IF IsBaseDomainView(currentHost, currentBaseDomain)
    THEN baseDomainConfig(currentBaseDomain, perms)
    ELSE subdomainConfig(currentHost, currentBaseDomain, perms)

----------------------------------------------------------------------------
(* Popup: the permission button (popup.js on permissionHelpers.js) *)

\* Other granted host patterns under the same base domain: *://<x>.<base>/*,
\* not the base-only, the wildcard or the current host pattern.
siblingHostCount(granted, host, baseOnly, wildcard, currentBaseDomain) ==
    Len(SelectSeq(granted, LAMBDA o :
        /\ StartsWith(o, <<"*://">>) /\ EndsWith(o, <<"/*">>)
        /\ o # baseOnly /\ o # wildcard
        /\ o # host
        /\ EndsWith(o, <<Dot>> \o currentBaseDomain \o <<"/*">>)))

Button(text, action, revoke, origin) ==
    [display |-> "block", text |-> text, action |-> action, revoke |-> revoke,
     origin |-> origin]

\* Mutant of siteButton: the 'pair' branch always revokes the base-only
\* pattern with the host pattern (no sibling count).
siteButton_pairDropsBase(currentHost, currentBaseDomain, granted, result) ==
    LET p == buildPatterns(currentHost, currentBaseDomain)
        onBase == isBaseHost(currentHost, currentBaseDomain)
        siblings == siblingHostCount(granted, p.host, p.baseOnly, p.wildcard, currentBaseDomain)
        withBase == Includes(granted, p.baseOnly)
        target == IF onBase THEN p.baseOnly ELSE p.host
    IN IF result.effective = "wildcard"
       THEN Button(<<"Revoke Access for ", "*", Dot>> \o currentBaseDomain,
                   "revoke", TRUE, p.wildcard)
       ELSE IF result.effective = "baseOnly" /\ onBase
       THEN Button(<<"Revoke Access for ">> \o currentBaseDomain, "revoke", TRUE, p.baseOnly)
       ELSE IF result.effective = "pair" /\ ~onBase
       THEN LET revokeList == <<p.host, p.baseOnly>>
            IN Button(<<"Revoke Access for ">> \o currentHost \o <<" (+ base)">>,
                      "revoke", TRUE, Join(revokeList, Comma))
       ELSE IF result.hasGlobal
       THEN IF target # Null /\ Includes(granted, target)
            THEN LET label == IF onBase THEN currentBaseDomain ELSE currentHost
                     revokeTargets ==
                         <<target>> \o (IF ~onBase /\ withBase /\ siblings = 0
                                        THEN <<p.baseOnly>> ELSE <<>>)
                 IN Button(<<"Revoke Access for ">> \o label \o <<" (keeps Global)">>
                             \o (IF Len(revokeTargets) > 1 THEN <<" (+ base)">> ELSE <<>>),
                           "revoke", TRUE, Join(revokeTargets, Comma))
            ELSE LET displayName == IF onBase THEN currentBaseDomain ELSE currentHost
                 IN Button(<<"Grant Access to ">> \o displayName, "grant", FALSE,
                           Join(SelectSeq(<<target>>, LAMBDA o : ~Falsy(o)), Comma))
       ELSE LET displayName == IF onBase THEN currentBaseDomain ELSE currentHost
            IN Button(<<"Grant Access to ">> \o displayName, "grant", FALSE,
                      Join(result.grantMissing, Comma))

\* Mutant of siteButton: the 'pair' branch takes a granted list of two entries
\* (instead of no sibling host pattern) to mean that nothing else needs the base.
siteButton_countsEntries(currentHost, currentBaseDomain, granted, result) ==
    LET p == buildPatterns(currentHost, currentBaseDomain)
        onBase == isBaseHost(currentHost, currentBaseDomain)
    IN IF result.effective = "pair" /\ ~onBase
       THEN LET revokeList ==
                    <<p.host>> \o (IF Len(granted) = 2 THEN <<p.baseOnly>> ELSE <<>>)
            IN Button(<<"Revoke Access for ">> \o currentHost
                        \o (IF Len(revokeList) > 1 THEN <<" (+ base)">> ELSE <<>>),
                      "revoke", TRUE, Join(revokeList, Comma))
       ELSE siteButton_pairDropsBase(currentHost, currentBaseDomain, granted, result)

\* updatePermissionUI, site view, after the granted origins have arrived:
\* result is computePermissionState(currentHost, currentBaseDomain, granted).
siteButton(currentHost, currentBaseDomain, granted, result) ==
    LET p == buildPatterns(currentHost, currentBaseDomain)
        onBase == isBaseHost(currentHost, currentBaseDomain)
        siblings == siblingHostCount(granted, p.host, p.baseOnly, p.wildcard, currentBaseDomain)
        withBase == Includes(granted, p.baseOnly)
        target == IF onBase THEN p.baseOnly ELSE p.host
    IN IF result.effective = "wildcard"
       THEN Button(<<"Revoke Access for ", "*", Dot>> \o currentBaseDomain,
                   "revoke", TRUE, p.wildcard)
       ELSE IF result.effective = "baseOnly" /\ onBase
       THEN Button(<<"Revoke Access for ">> \o currentBaseDomain, "revoke", TRUE, p.baseOnly)
       ELSE IF result.effective = "pair" /\ ~onBase
       THEN LET revokeList ==
                    <<p.host>> \o (IF withBase /\ siblings = 0 THEN <<p.baseOnly>> ELSE <<>>)
            IN Button(<<"Revoke Access for ">> \o currentHost
                        \o (IF Len(revokeList) > 1 THEN <<" (+ base)">> ELSE <<>>),
                      "revoke", TRUE, Join(revokeList, Comma))
       ELSE IF result.hasGlobal
       THEN IF target # Null /\ Includes(granted, target)
            THEN LET label == IF onBase THEN currentBaseDomain ELSE currentHost
                     revokeTargets ==
                         <<target>> \o (IF ~onBase /\ withBase /\ siblings = 0
                                        THEN <<p.baseOnly>> ELSE <<>>)
                 IN Button(<<"Revoke Access for ">> \o label \o <<" (keeps Global)">>
                             \o (IF Len(revokeTargets) > 1 THEN <<" (+ base)">> ELSE <<>>),
                           "revoke", TRUE, Join(revokeTargets, Comma))
            ELSE LET displayName == IF onBase THEN currentBaseDomain ELSE currentHost
                 IN Button(<<"Grant Access to ">> \o displayName, "grant", FALSE,
                           Join(SelectSeq(<<target>>, LAMBDA o : ~Falsy(o)), Comma))
       ELSE LET displayName == IF onBase THEN currentBaseDomain ELSE currentHost
            IN Button(<<"Grant Access to ">> \o displayName, "grant", FALSE,
                      Join(result.grantMissing, Comma))

\* updatePermissionUI, 'all' view, after CHECK_PERMISSION has answered.
allButton(hasAllUrlsPerm) ==
    Button(IF hasAllUrlsPerm THEN <<"Revoke Global Access">> ELSE <<"Grant Full Access">>,
           IF hasAllUrlsPerm THEN "revoke" ELSE "grant",
           hasAllUrlsPerm, AllUrls)

\* background.js, CHECK_PERMISSION: false for no origins, else permissions.contains.
checkPermission(origins, perms) ==
    Len(origins) > 0 /\ \A i \in 1..Len(origins) : origins[i] \in perms

----------------------------------------------------------------------------
(* Inputs *)

GoogleCom == <<"google", Dot, "com">>
MailGoogleCom == <<"mail", Dot>> \o GoogleCom
WwwGoogleCom == <<"www", Dot>> \o GoogleCom
MGoogleCom == <<"m", Dot>> \o GoogleCom

EngineHosts == {Null, EmptyStr, GoogleCom, WwwGoogleCom, MailGoogleCom, MGoogleCom}
EngineBases == {Null, EmptyStr, GoogleCom, MailGoogleCom}

\* The patterns a granted list is drawn from: the sentinel, the three
\* canonical patterns of google.com and two exact-host patterns under it.
OriginUniverse ==
    {AllUrls, WildcardPattern(GoogleCom), BasePattern(GoogleCom),
     HostPattern(MailGoogleCom), HostPattern(WwwGoogleCom)}

RECURSIVE ListsUpTo(_, _)
ListsUpTo(S, n) ==
    IF n = 0 THEN {<<>>}
    ELSE LET shorter == ListsUpTo(S, n - 1)
         IN shorter \cup {Append(l, x) : l \in shorter, x \in S}

GrantedLists == ListsUpTo(OriginUniverse, MaxGranted)

\* Hostnames for the resolver: up to MaxLabels labels joined with '.', where a
\* label may be empty (a leading dot, a stray '..').
Labels == {<<"a">>, <<"shop">>, <<"co">>, <<"ac">>, <<"com">>, <<"uk">>, <<"io">>, EmptyStr}

LabelLists == ListsUpTo(Labels, MaxLabels) \ {<<>>}

HostnameInputs == {Join(l, Dot) : l \in LabelLists}

----------------------------------------------------------------------------
(* Values of the variables a specification does not use *)

NoState ==
    [isBaseDomain |-> FALSE, hasGlobal |-> FALSE, hasWildcard |-> FALSE,
     hasBaseOnly |-> FALSE, hasHost |-> FALSE, effective |-> "unset",
     grantMissing |-> <<>>, revokeTarget |-> Null]

NoConfig == ButtonConfig(FALSE, EmptyStr, "", <<>>, FALSE)

NoPopupState == [viewMode |-> "site", currentHost |-> EmptyStr, currentBaseDomain |-> EmptyStr]

NoButton == [display |-> "none", action |-> "", origin |-> EmptyStr, revoke |-> FALSE,
             text |-> EmptyStr]

NoRequest == EmptyBag

NoChrome == [cookies |-> FALSE, hasGetPartitionKey |-> FALSE, delivers |-> <<"#undefined">>,
             tabsGet |-> FALSE, tabUrl |-> <<"#undefined">>, calls |-> <<>>]

NoPage == [allPermsWarning |-> "", searchAllDisabled |-> FALSE, bulkDeleteAllDisabled |-> FALSE]

NoResponse == [unanswered |-> TRUE]

NoMessage == [type |-> "none"]

NoStore == [state |-> <<>>, storage |-> <<>>, writes |-> <<>>, events |-> <<>>]

NoSet == [patch |-> <<>>, state |-> <<>>]

----------------------------------------------------------------------------
(* SpecResolver: getBaseDomain applied to every input hostname *)

InitResolver ==
    /\ pc = "input"
    /\ hostname \in HostnameInputs
    /\ baseDomain = EmptyStr
    /\ grantedOrigins = <<>>
    /\ resolved = Null
    /\ ps = NoState
    /\ cfg = NoConfig
    /\ prevPs = NoState
    /\ state = NoPopupState
    /\ btn = NoButton
    /\ permissions = {}
    /\ request = NoRequest
    /\ page = NoPage
    /\ pending = <<>>
    /\ resolvedAgain = Null
    /\ prevBtn = NoButton
    /\ chrome = NoChrome
    /\ tabId = Null
    /\ partitionKey = Null
    /\ revokes = 0
    /\ cookieStore = {}
    /\ response = NoResponse
    /\ message = NoMessage
    /\ opLog = <<>>
    /\ tasks = <<>>
    /\ cursor = 0
    /\ count = 0
    /\ store = NoStore
    /\ lastSet = NoSet

Resolve ==
    /\ pc = "input"
    /\ resolved' = getBaseDomain(hostname)
    /\ pc' = "resolved"
    /\ UNCHANGED <<hostname, baseDomain, grantedOrigins, ps, cfg, prevPs,
                   state, btn, permissions, request, page, pending, resolvedAgain, prevBtn, chrome, tabId, partitionKey, revokes,
                   cookieStore, response,
                   message, opLog, tasks, cursor, count, store, lastSet>>

\* getBaseDomain applied to its own result.
ResolveAgain ==
    /\ pc = "resolved"
    /\ resolvedAgain' = getBaseDomain(resolved)
    /\ pc' = "resolvedAgain"
    /\ UNCHANGED <<hostname, baseDomain, grantedOrigins, resolved, ps, cfg, prevPs,
                   state, btn, permissions, request, page, pending, prevBtn, chrome, tabId, partitionKey, revokes,
                   cookieStore, response,
                   message, opLog, tasks, cursor, count, store, lastSet>>

NextResolver == Resolve \/ ResolveAgain

SpecResolver == InitResolver /\ [][NextResolver]_vars

----------------------------------------------------------------------------
(* SpecPartition: getPartitionKey (cookiePartition.js) applied to every browser *)
(* environment and tab id                                                      *)

Undefined == <<"#undefined">>

\* params.tabId: absent, or an integer.
NoTabId == <<>>
IsInteger(id) == Len(id) = 1                       \* Number.isInteger(tabId)

\* A partition key { topLevelSite }.
KeyOf(topLevelSite) == <<"topLevelSite", topLevelSite>>

\* new URL(url): a scheme, '//', the host's characters, then the path; anything
\* else throws (Null here).
Schemes == {"https:", "http:"}
PathAtoms == {"/page", "/path"}

ParseUrl(url) ==
    IF Len(url) >= 3 /\ url[1] \in Schemes /\ url[2] = "//"
    THEN <<url[1], SelectSeq(SubSeq(url, 3, Len(url)), LAMBDA x : x \notin PathAtoms)>>
    ELSE Null

\* `${u.protocol}//${baseDomain}`, null when the URL does not parse.
buildTopLevelSite(url) ==
    LET u == ParseUrl(url)
    IN IF u = Null THEN Null
       ELSE <<u[1], "//">> \o getBaseDomain(u[2])

\* getPartitionKey({ tabId, frameId = 0 }): the result and the calls made on the
\* browser API.  Step 1 of the source, the call of chrome.cookies.getPartitionKey,
\* is commented out (lines 31-49), so the function goes from the test of
\* chrome.cookies straight to the fallback.
getPartitionKey(c, id) ==
    IF ~c.cookies THEN [key |-> Null, calls |-> <<>>]
    ELSE IF c.tabsGet /\ IsInteger(id)
    THEN LET topLevelSite == IF Falsy(c.tabUrl) \/ c.tabUrl = Undefined THEN Null
                             ELSE buildTopLevelSite(c.tabUrl)
         IN [key |-> IF Falsy(topLevelSite) THEN Null ELSE KeyOf(topLevelSite),
             calls |-> <<<<"tabs.get", id>>>>]
    ELSE [key |-> Null, calls |-> <<>>]

\* The tab URLs of the tests, a tab without URL, and a string that is no URL.
SubExampleCom == <<"https:", "//", "sub", Dot, "example", Dot, "com", "/page">>
SubExampleCoUk == <<"https:", "//", "sub", Dot, "example", Dot, "co", Dot, "uk", "/path">>
FooBarExampleCom == <<"http:", "//", "foo", Dot, "bar", Dot, "example", Dot, "com">>
NotAUrl == <<"not a url">>

TabUrls == {Undefined, EmptyStr, NotAUrl, SubExampleCom, SubExampleCoUk, FooBarExampleCom}

\* What chrome.cookies.getPartitionKey hands to its callback.
DeliveredKeys ==
    {Undefined, KeyOf(<<"https:", "//", "example", Dot, "com">>),
     KeyOf(<<"https:", "//", "partition", Dot, "test">>)}

TabIds == {NoTabId, <<1>>, <<123>>}

ChromeEnvs ==
    {c \in [cookies : BOOLEAN, hasGetPartitionKey : BOOLEAN, delivers : DeliveredKeys,
            tabsGet : BOOLEAN, tabUrl : TabUrls, calls : {<<>>}] :
        /\ ~c.hasGetPartitionKey => c.delivers = Undefined
        /\ ~c.cookies => ~c.hasGetPartitionKey
        /\ ~c.tabsGet => c.tabUrl = Undefined}

InitPartition ==
    /\ pc = "input"
    /\ hostname = EmptyStr
    /\ baseDomain = EmptyStr
    /\ grantedOrigins = <<>>
    /\ resolved = Null
    /\ ps = NoState
    /\ cfg = NoConfig
    /\ prevPs = NoState
    /\ state = NoPopupState
    /\ btn = NoButton
    /\ permissions = {}
    /\ request = NoRequest
    /\ page = NoPage
    /\ pending = <<>>
    /\ resolvedAgain = Null
    /\ prevBtn = NoButton
    /\ chrome \in ChromeEnvs
    /\ tabId \in TabIds
    /\ partitionKey = Null
    /\ revokes = 0
    /\ cookieStore = {}
    /\ response = NoResponse
    /\ message = NoMessage
    /\ opLog = <<>>
    /\ tasks = <<>>
    /\ cursor = 0
    /\ count = 0
    /\ store = NoStore
    /\ lastSet = NoSet

GetPartitionKey ==
    /\ pc = "input"
    /\ LET out == getPartitionKey(chrome, tabId)
       IN /\ partitionKey' = out.key
          /\ chrome' = [chrome EXCEPT !.calls = out.calls]
    /\ pc' = "keyed"
    /\ UNCHANGED <<hostname, baseDomain, grantedOrigins, resolved, ps, cfg, prevPs,
                   state, btn, permissions, request, page, pending, resolvedAgain,
                   prevBtn, tabId, revokes,
                   cookieStore, response,
                   message, opLog, tasks, cursor, count, store, lastSet>>

NextPartition == GetPartitionKey

SpecPartition == InitPartition /\ [][NextPartition]_vars

----------------------------------------------------------------------------
(* SpecEngine: computePermissionState and buildPermissionButtonConfig applied *)
(* to every input triple, followed by the revoke or the grant they name       *)

InitEngine ==
    /\ pc = "input"
    /\ hostname \in EngineHosts
    /\ baseDomain \in EngineBases
    /\ grantedOrigins \in GrantedLists
    /\ resolved = Null
    /\ ps = NoState
    /\ cfg = NoConfig
    /\ prevPs = NoState
    /\ state = NoPopupState
    /\ btn = NoButton
    /\ permissions = {}
    /\ request = NoRequest
    /\ page = NoPage
    /\ pending = <<>>
    /\ resolvedAgain = Null
    /\ prevBtn = NoButton
    /\ chrome = NoChrome
    /\ tabId = Null
    /\ partitionKey = Null
    /\ revokes = 0
    /\ cookieStore = {}
    /\ response = NoResponse
    /\ message = NoMessage
    /\ opLog = <<>>
    /\ tasks = <<>>
    /\ cursor = 0
    /\ count = 0
    /\ store = NoStore
    /\ lastSet = NoSet

Compute ==
    /\ pc = "input"
    /\ ps' = computePermissionState(hostname, baseDomain, grantedOrigins)
    /\ cfg' = buildPermissionButtonConfig("site", hostname, baseDomain, Range(grantedOrigins))
    /\ pc' = "computed"
    /\ UNCHANGED <<hostname, baseDomain, grantedOrigins, resolved, prevPs,
                   state, btn, permissions, request, page, pending, resolvedAgain, prevBtn, chrome, tabId, partitionKey, revokes,
                   cookieStore, response,
                   message, opLog, tasks, cursor, count, store, lastSet>>

\* permissions.remove of the revoke target, then a fresh computation.
RevokeTarget ==
    /\ pc = "computed"
    /\ ps.revokeTarget # Null
    /\ LET left == SelectSeq(grantedOrigins, LAMBDA o : o # ps.revokeTarget)
       IN /\ grantedOrigins' = left
          /\ ps' = computePermissionState(hostname, baseDomain, left)
          /\ cfg' = buildPermissionButtonConfig("site", hostname, baseDomain, Range(left))
    /\ prevPs' = ps
    /\ pc' = "revoked"
    /\ UNCHANGED <<hostname, baseDomain, resolved, state, btn, permissions, request, page, pending, resolvedAgain, prevBtn, chrome, tabId, partitionKey, revokes,
                   cookieStore, response,
                   message, opLog, tasks, cursor, count, store, lastSet>>

\* permissions.request of the missing patterns, accepted, then a fresh computation.
GrantMissing ==
    /\ pc = "computed"
    /\ ps.effective = "none"
    /\ LET more == grantedOrigins \o ps.grantMissing
       IN /\ grantedOrigins' = more
          /\ ps' = computePermissionState(hostname, baseDomain, more)
          /\ cfg' = buildPermissionButtonConfig("site", hostname, baseDomain, Range(more))
    /\ prevPs' = ps
    /\ pc' = "granted"
    /\ UNCHANGED <<hostname, baseDomain, resolved, state, btn, permissions, request, page, pending, resolvedAgain, prevBtn, chrome, tabId, partitionKey, revokes,
                   cookieStore, response,
                   message, opLog, tasks, cursor, count, store, lastSet>>

\* The lists one step from a list: two neighbouring entries swapped, or an
\* entry repeated at the end.  Any two lists of the same patterns are joined
\* by such steps and their reverses.
Rearranged(list) ==
    {[list EXCEPT ![i] = list[i + 1], ![i + 1] = list[i]] : i \in 1..(Len(list) - 1)}
    \cup (IF Len(list) < MaxGranted
          THEN {Append(list, list[i]) : i \in 1..Len(list)} ELSE {})

\* The same grants given as another list (another order, entries repeated):
\* the engine's result and the popup's site button for both lists.
Reorder ==
    /\ pc = "computed"
    /\ \E other \in Rearranged(grantedOrigins) :
          /\ other # grantedOrigins
          /\ grantedOrigins' = other
          /\ ps' = computePermissionState(hostname, baseDomain, other)
          /\ btn' = IF Falsy(baseDomain) THEN NoButton
                    ELSE siteButton(hostname, baseDomain, other, ps')
    /\ prevPs' = ps
    /\ prevBtn' = IF Falsy(baseDomain) THEN NoButton
                  ELSE siteButton(hostname, baseDomain, grantedOrigins, ps)
    /\ pc' = "reordered"
    /\ UNCHANGED <<hostname, baseDomain, resolved, cfg, state, permissions, request,
                   page, pending, resolvedAgain, chrome, tabId, partitionKey, revokes,
                   cookieStore, response,
                   message, opLog, tasks, cursor, count, store, lastSet>>

NextEngine == Compute \/ RevokeTarget \/ GrantMissing \/ Reorder

SpecEngine == InitEngine /\ [][NextEngine]_vars

----------------------------------------------------------------------------
(* Spec: the popup's permission button.  init() has run up to the first     *)
(* await of refresh(); from there the user switches tabs, presses refresh   *)
(* and clicks the button while the background answers the messages in       *)
(* flight, in any order.  ps is the local `ps` of the updatePermissionUI run *)
(* that rendered the button now shown.                                      *)

AccountsGoogleCom == <<"accounts", Dot>> \o GoogleCom

TabHosts == {EmptyStr, GoogleCom, WwwGoogleCom, MailGoogleCom}

PopupOrigins ==
    {AllUrls, WildcardPattern(GoogleCom), BasePattern(GoogleCom),
     HostPattern(MailGoogleCom), HostPattern(AccountsGoogleCom)}

PopupOriginList ==
    <<AllUrls, WildcardPattern(GoogleCom), BasePattern(GoogleCom),
      HostPattern(MailGoogleCom), HostPattern(AccountsGoogleCom)>>

\* chrome.permissions.getAll().origins: the granted patterns, in the browser's
\* order.  The orders tried are the rotations of one listing, MaxOrderings of them.
Rotate(list, k) ==
    [i \in 1..Len(list) |-> list[((i - 1 + k) % Len(list)) + 1]]

Orderings(S) ==
    LET listed == SelectSeq(PopupOriginList, LAMBDA o : o \in S)
    IN {Rotate(listed, k) : k \in 0..(MaxOrderings - 1)}

\* updatePermissionUI up to its first await: the button is reset, and on the
\* site view without a base domain the run ends there.
ResetButton == [btn EXCEPT !.display = "none", !.revoke = FALSE,
                           !.action = "", !.origin = EmptyStr]

AwaitsAnswer(st) == ~(st.viewMode = "site" /\ Falsy(st.currentBaseDomain))

\* refresh(): updatePermissionUI begins for the state st.
RefreshBegin(st) ==
    /\ btn' = ResetButton
    /\ ps' = NoState
    /\ pending' = IF AwaitsAnswer(st) THEN Append(pending, st.viewMode) ELSE pending

RemoveAt(list, i) == SubSeq(list, 1, i - 1) \o SubSeq(list, i + 1, Len(list))

Init ==
    /\ pc = "popup"
    /\ hostname = EmptyStr
    /\ baseDomain = EmptyStr
    /\ grantedOrigins = <<>>
    /\ resolved = Null
    /\ ps = NoState
    /\ cfg = NoConfig
    /\ prevPs = NoState
    /\ \E h \in TabHosts :
          state = [viewMode |-> "site", currentHost |-> h,
                   currentBaseDomain |-> getBaseDomain(h)]
    /\ btn = NoButton
    /\ permissions \in SUBSET PopupOrigins
    /\ request = NoRequest
    /\ page = NoPage
    /\ pending = IF AwaitsAnswer(state) THEN <<"site">> ELSE <<>>
    /\ resolvedAgain = Null
    /\ prevBtn = NoButton
    /\ chrome = NoChrome
    /\ tabId = Null
    /\ partitionKey = Null
    /\ revokes = 0
    /\ cookieStore = {}
    /\ response = NoResponse
    /\ message = NoMessage
    /\ opLog = <<>>
    /\ tasks = <<>>
    /\ cursor = 0
    /\ count = 0
    /\ store = NoStore
    /\ lastSet = NoSet

\* A click on a tab link.
HandleTabSwitch ==
    /\ Len(pending) < MaxInFlight
    /\ \E v \in {"site", "all"} :
          /\ state' = [state EXCEPT !.viewMode = v]
          /\ RefreshBegin(state')
    /\ UNCHANGED <<pc, hostname, baseDomain, grantedOrigins, resolved, cfg, prevPs,
                   permissions, request, page, resolvedAgain, prevBtn, chrome, tabId, partitionKey, revokes,
                   cookieStore, response,
                   message, opLog, tasks, cursor, count, store, lastSet>>

\* A click on #btn-refresh.
RefreshClick ==
    /\ Len(pending) < MaxInFlight
    /\ RefreshBegin(state)
    /\ UNCHANGED <<pc, hostname, baseDomain, grantedOrigins, resolved, cfg, prevPs,
                   state, permissions, request, page, resolvedAgain, prevBtn, chrome, tabId, partitionKey, revokes,
                   cookieStore, response,
                   message, opLog, tasks, cursor, count, store, lastSet>>

\* GET_GRANTED_ORIGINS is answered and updatePermissionUI renders the site button.
UpdateSite ==
    \E i \in 1..Len(pending) :
       /\ pending[i] = "site"
       /\ \E granted \in Orderings(permissions) :
             LET result == computePermissionState(state.currentHost,
                                                  state.currentBaseDomain, granted)
                 shown == siteButton(state.currentHost, state.currentBaseDomain,
                                     granted, result)
             IN /\ ps' = result
                /\ btn' = shown
       /\ pending' = RemoveAt(pending, i)
       /\ UNCHANGED <<pc, hostname, baseDomain, grantedOrigins, resolved, cfg, prevPs,
                      state, permissions, request, page, resolvedAgain, prevBtn, chrome, tabId, partitionKey, revokes,
                   cookieStore, response,
                   message, opLog, tasks, cursor, count, store, lastSet>>

\* CHECK_PERMISSION for <all_urls> is answered and updatePermissionUI renders
\* the 'all' view.
UpdateAll ==
    \E i \in 1..Len(pending) :
       /\ pending[i] = "all"
       /\ LET hasAllUrlsPerm == checkPermission(<<AllUrls>>, permissions)
          IN /\ btn' = allButton(hasAllUrlsPerm)
             /\ page' = [allPermsWarning |-> IF hasAllUrlsPerm THEN "none" ELSE "block",
                         searchAllDisabled |-> ~hasAllUrlsPerm,
                         bulkDeleteAllDisabled |-> ~hasAllUrlsPerm]
       /\ ps' = NoState
       /\ pending' = RemoveAt(pending, i)
       /\ UNCHANGED <<pc, hostname, baseDomain, grantedOrigins, resolved, cfg, prevPs,
                      state, permissions, request, resolvedAgain, prevBtn, chrome, tabId, partitionKey, revokes,
                   cookieStore, response,
                   message, opLog, tasks, cursor, count, store, lastSet>>

\* handlePermissionClick up to its await: the message for the button's
\* action and origins is sent.
HandlePermissionClick ==
    /\ btn.display = "block"
    /\ BagCardinality(request) < MaxClicks
    /\ LET action == btn.action
           origins == Split(btn.origin, Comma)
       IN /\ ~(action = "" \/ Len(origins) = 0)
          /\ action \in {"grant", "revoke"}
          /\ request' = request (+) SetToBag(
                 {[type |-> IF action = "grant" THEN "REQUEST_PERMISSION"
                            ELSE "REVOKE_PERMISSION",
                   origins |-> origins]})
    /\ UNCHANGED <<pc, hostname, baseDomain, grantedOrigins, resolved, ps, cfg, prevPs,
                   state, btn, permissions, page, pending, resolvedAgain, prevBtn, chrome, tabId, partitionKey, revokes,
                   cookieStore, response,
                   message, opLog, tasks, cursor, count, store, lastSet>>

\* The background answers a permission message with true: the browser has
\* granted or removed the message's origins (match patterns all of them);
\* handlePermissionClick refreshes.
PermissionSucceeds ==
    /\ Len(pending) < MaxInFlight
    /\ \E msg \in BagToSet(request) :
          LET origins == msg.origins
          IN /\ \A k \in 1..Len(origins) : ~Falsy(origins[k])
             /\ permissions' = IF msg.type = "REQUEST_PERMISSION"
                               THEN permissions \cup Range(origins)
                               ELSE permissions \ Range(origins)
             /\ request' = request (-) SetToBag({msg})
    /\ RefreshBegin(state)
    /\ UNCHANGED <<pc, hostname, baseDomain, grantedOrigins, resolved, cfg, prevPs,
                   state, page, resolvedAgain, prevBtn, chrome, tabId, partitionKey, revokes,
                   cookieStore, response,
                   message, opLog, tasks, cursor, count, store, lastSet>>

\* The background answers a permission message with false (the user declined,
\* the browser refused): 'Permission action failed.'
PermissionFails ==
    /\ \E msg \in BagToSet(request) : request' = request (-) SetToBag({msg})
    /\ UNCHANGED <<pc, hostname, baseDomain, grantedOrigins, resolved, ps, cfg, prevPs,
                   state, btn, permissions, page, pending, resolvedAgain, prevBtn, chrome, tabId, partitionKey, revokes,
                   cookieStore, response,
                   message, opLog, tasks, cursor, count, store, lastSet>>

Next ==
    \/ HandleTabSwitch
    \/ RefreshClick
    \/ UpdateSite
    \/ UpdateAll
    \/ HandlePermissionClick
    \/ PermissionSucceeds
    \/ PermissionFails

Spec == Init /\ [][Next]_vars

----------------------------------------------------------------------------
(* SpecAlternate: the site view's button followed through successive revoke  *)
(* clicks, each answered with true and followed by refresh(), with nothing   *)
(* granted in between.  Two popups are followed: the one that renders from   *)
(* computePermissionState (part_004, pc = "siteButton") and the one that     *)
(* renders from its own CHECK_PERMISSION queries (src/popup/popup.js, the    *)
(* logic of buildPermissionButtonConfig, pc = "buttonConfig").               *)

SiteHosts == {GoogleCom, WwwGoogleCom, MailGoogleCom}

\* updatePermissionUI of both popups for the granted set perms.
Rendered(perms) ==
    \E granted \in Orderings(perms) :
       /\ ps' = computePermissionState(state'.currentHost, state'.currentBaseDomain, granted)
       /\ btn' = siteButton(state'.currentHost, state'.currentBaseDomain, granted, ps')
       /\ cfg' = buildPermissionButtonConfig("site", state'.currentHost,
                                             state'.currentBaseDomain, perms)

InitAlternate ==
    /\ pc \in {"siteButton", "buttonConfig"}
    /\ hostname = EmptyStr
    /\ baseDomain = EmptyStr
    /\ grantedOrigins = <<>>
    /\ resolved = Null
    /\ prevPs = NoState
    /\ \E h \in SiteHosts :
          state = [viewMode |-> "site", currentHost |-> h,
                   currentBaseDomain |-> getBaseDomain(h)]
    /\ permissions \in SUBSET PopupOrigins
    /\ \E granted \in Orderings(permissions) :
          /\ ps = computePermissionState(state.currentHost, state.currentBaseDomain, granted)
          /\ btn = siteButton(state.currentHost, state.currentBaseDomain, granted, ps)
    /\ cfg = buildPermissionButtonConfig("site", state.currentHost,
                                         state.currentBaseDomain, permissions)
    /\ request = NoRequest
    /\ page = NoPage
    /\ pending = <<>>
    /\ resolvedAgain = Null
    /\ prevBtn = NoButton
    /\ chrome = NoChrome
    /\ tabId = Null
    /\ partitionKey = Null
    /\ revokes = 0
    /\ cookieStore = {}
    /\ response = NoResponse
    /\ message = NoMessage
    /\ opLog = <<>>
    /\ tasks = <<>>
    /\ cursor = 0
    /\ count = 0
    /\ store = NoStore
    /\ lastSet = NoSet

\* part_004: a click on the revoke button, REVOKE_PERMISSION answered with
\* true, refresh().
RevokeBySiteButton ==
    /\ pc = "siteButton"
    /\ btn.action = "revoke"
    /\ revokes < MaxRevokes
    /\ permissions' = permissions \ Range(Split(btn.origin, Comma))
    /\ state' = state
    /\ Rendered(permissions')
    /\ revokes' = revokes + 1
    /\ UNCHANGED <<pc, hostname, baseDomain, grantedOrigins, resolved, prevPs, request,
                   page, pending, resolvedAgain, prevBtn, chrome, tabId, partitionKey,
                   cookieStore, response,
                   message, opLog, tasks, cursor, count, store, lastSet>>

\* src/popup/popup.js: the same click on the button its own queries rendered.
RevokeByButtonConfig ==
    /\ pc = "buttonConfig"
    /\ cfg.action = "revoke"
    /\ revokes < MaxRevokes
    /\ permissions' = permissions \ Range(cfg.origins)
    /\ state' = state
    /\ Rendered(permissions')
    /\ revokes' = revokes + 1
    /\ UNCHANGED <<pc, hostname, baseDomain, grantedOrigins, resolved, prevPs, request,
                   page, pending, resolvedAgain, prevBtn, chrome, tabId, partitionKey,
                   cookieStore, response,
                   message, opLog, tasks, cursor, count, store, lastSet>>

NextAlternate == RevokeBySiteButton \/ RevokeByButtonConfig

SpecAlternate == InitAlternate /\ [][NextAlternate]_vars

----------------------------------------------------------------------------
(* Background service worker (background.js): cookies and the access gate *)

\* A cookie as chrome.cookies hands it out.
Cookie(name, domain, path) ==
    [name |-> name, domain |-> domain, path |-> path, storeId |-> <<"0">>]

DeepMailHost == <<"x", Dot>> \o MailGoogleCom

\* The cookies of the browser, in the order chrome.cookies.getAll lists them:
\* host-only and domain cookies of mail.google.com and of google.com, a cookie
\* of a sibling subdomain, one of a deeper subdomain, and a google.com cookie
\* whose path is empty.
CookieListing ==
    <<Cookie(<<"sid">>, MailGoogleCom, <<"/">>),
      Cookie(<<"sid">>, <<Dot>> \o MailGoogleCom, <<"/">>),
      Cookie(<<"sid">>, GoogleCom, <<"/">>),
      Cookie(<<"sid">>, <<Dot>> \o GoogleCom, <<"/">>),
      Cookie(<<"sid">>, AccountsGoogleCom, <<"/">>),
      Cookie(<<"sid">>, DeepMailHost, <<"/">>),
      Cookie(<<"sid">>, GoogleCom, EmptyStr)>>

CookieStores == {s \in SUBSET Range(CookieListing) : Cardinality(s) <= MaxCookies}

\* chrome.cookies.getAll({ domain }): the cookies whose domain equals the
\* filter or is a subdomain of it.
DomainMatches(cookieDomain, domain) ==
    LET bare == IF StartsWith(cookieDomain, <<Dot>>) THEN Tail(cookieDomain)
                ELSE cookieDomain
    IN bare = domain \/ EndsWith(bare, <<Dot>> \o domain)

cookiesGetAll(domain, cookies) ==
    SelectSeq(CookieListing, LAMBDA c : c \in cookies /\ DomainMatches(c.domain, domain))

\* `${c.name}|${c.domain}|${c.path || '/'}|${c.storeId || ''}`
keyOf(c) ==
    Join(<<c.name, c.domain, IF Falsy(c.path) THEN <<"/">> ELSE c.path,
           IF Falsy(c.storeId) THEN EmptyStr ELSE c.storeId>>, "|")

\* The Map `uniq`: the first cookie of every key, in insertion order.
RECURSIVE uniqValues(_, _)
uniqValues(list, seen) ==
    IF list = <<>> THEN <<>>
    ELSE IF keyOf(Head(list)) \in seen THEN uniqValues(Tail(list), seen)
    ELSE <<Head(list)>> \o uniqValues(Tail(list), seen \cup {keyOf(Head(list))})

getCookiesForHostAndBase_allowsSubdomains(host, base, cookies) ==
    LET hostList == cookiesGetAll(host, cookies)
        baseList == IF ~Falsy(base) /\ base # host THEN cookiesGetAll(base, cookies)
                    ELSE <<>>
    IN uniqValues(hostList \o baseList, {})

getCookiesForHostAndBase(host, base, cookies) ==
    LET allowedDomainSet ==
            {d \in {host, <<Dot>> \o host, base,
                    IF ~Falsy(base) THEN <<Dot>> \o base ELSE Null} : ~Falsy(d)}
        hostList == cookiesGetAll(host, cookies)
        baseList == IF ~Falsy(base) /\ base # host THEN cookiesGetAll(base, cookies)
                    ELSE <<>>
        merged == SelectSeq(hostList \o baseList, LAMBDA c : c.domain \in allowedDomainSet)
    IN uniqValues(merged, {})

\* permissionsContains of background.js: chrome.permissions.contains, taken as
\* inclusion of every listed pattern in the granted set.
chromePermissionsContains(origins, perms) ==
    \A i \in 1..Len(origins) : origins[i] \in perms

\* hasPermissions of the GET_ACTIVE_TAB_COOKIES handler.
hasPermissions(host, base, perms) ==
    LET isBaseDomain == host = base \/ host = <<"www", Dot>> \o base
        baseOnly == BasePattern(base)
        wildcard == WildcardPattern(base)
    IN IF isBaseDomain
       THEN \/ chromePermissionsContains(<<baseOnly>>, perms)
            \/ chromePermissionsContains(<<wildcard>>, perms)
       ELSE \/ chromePermissionsContains(<<HostPattern(host), BasePattern(base)>>, perms)
            \/ chromePermissionsContains(<<wildcard>>, perms)

\* The answer of the GET_ACTIVE_TAB_COOKIES handler for the active tab's URL.
getActiveTabCookies(tabUrl, perms, cookies) ==
    IF tabUrl = Undefined \/ Falsy(tabUrl) THEN [error |-> "no_active_tab"]
    ELSE IF ParseUrl(tabUrl) = Null THEN [error |-> "invalid_tab_url"]
    ELSE LET host == ParseUrl(tabUrl)[2]
             base == getBaseDomain(host)
         IN IF ~hasPermissions(host, base, perms)
            THEN [limited |-> TRUE, msg |-> "no_site_permission"]
            ELSE [cookies |-> getCookiesForHostAndBase(host, base, cookies)]

----------------------------------------------------------------------------
(* SpecActiveTab: the GET_ACTIVE_TAB_COOKIES message answered for every active *)
(* tab, granted set and cookie store                                          *)

UrlOf(host) == <<"https:", "//">> \o host \o <<"/page">>

ActiveTabUrls ==
    {Undefined, NotAUrl, UrlOf(GoogleCom), UrlOf(WwwGoogleCom), UrlOf(MailGoogleCom)}

InitActiveTab ==
    /\ pc = "message"
    /\ hostname = EmptyStr
    /\ baseDomain = EmptyStr
    /\ grantedOrigins = <<>>
    /\ resolved = Null
    /\ ps = NoState
    /\ cfg = NoConfig
    /\ prevPs = NoState
    /\ state = NoPopupState
    /\ btn = NoButton
    /\ permissions \in SUBSET OriginUniverse
    /\ request = NoRequest
    /\ page = NoPage
    /\ pending = <<>>
    /\ resolvedAgain = Null
    /\ prevBtn = NoButton
    /\ \E url \in ActiveTabUrls : chrome = [NoChrome EXCEPT !.tabUrl = url]
    /\ tabId = Null
    /\ partitionKey = Null
    /\ revokes = 0
    /\ cookieStore \in CookieStores
    /\ response = NoResponse
    /\ message = [type |-> "GET_ACTIVE_TAB_COOKIES"]
    /\ opLog = <<>>
    /\ tasks = <<>>
    /\ cursor = 0
    /\ count = 0
    /\ store = NoStore
    /\ lastSet = NoSet

\* The handler from chrome.tabs.query to sendResponse; hostname and baseDomain
\* hold its locals `hostname` and `base` once the tab's URL has parsed.
GetActiveTabCookies ==
    /\ pc = "message"
    /\ message.type = "GET_ACTIVE_TAB_COOKIES"
    /\ response' = getActiveTabCookies(chrome.tabUrl, permissions, cookieStore)
    /\ IF chrome.tabUrl # Undefined /\ ParseUrl(chrome.tabUrl) # Null
       THEN /\ hostname' = ParseUrl(chrome.tabUrl)[2]
            /\ baseDomain' = getBaseDomain(hostname')
       ELSE UNCHANGED <<hostname, baseDomain>>
    /\ pc' = "answered"
    /\ UNCHANGED <<grantedOrigins, resolved, ps, cfg, prevPs, state, btn, permissions,
                   request, page, pending, resolvedAgain, prevBtn, chrome, tabId,
                   partitionKey, revokes, cookieStore, message, opLog, tasks, cursor,
                   count, store, lastSet>>

NextActiveTab == GetActiveTabCookies

SpecActiveTab == InitActiveTab /\ [][NextActiveTab]_vars

----------------------------------------------------------------------------
(* Background service worker: removing cookies and the operation log *)

\* The operation log keeps its newest LogCap entries (old.slice(0, 500)).
LogCap == 500

\* Entries written before the run: cookie_changed entries, numbered from the
\* oldest (1) to the newest.
ChangedEntry(k) == [type |-> "cookie_changed", changeInfo |-> k]

EarlierLog(n) == [k \in 1..n |-> ChangedEntry(n - k + 1)]

RemoveEntry(cookie) == [type |-> "remove", cookie |-> cookie]

Take(list, n) == IF Len(list) <= n THEN list ELSE SubSeq(list, 1, n)

\* pushLog from the list it read: old.unshift(entry), old.slice(0, 500).
pushLog(old, entry) == Take(<<entry>> \o old, LogCap)

\* The host of cookieToUrl(cookie): the cookie's domain without a leading dot.
cookieToUrlHost(cookie) ==
    IF Falsy(cookie.domain) THEN EmptyStr
    ELSE IF StartsWith(cookie.domain, <<Dot>>) THEN Tail(cookie.domain)
    ELSE cookie.domain

\* The extension holds host permission for a host: '<all_urls>', the host's
\* own pattern, or the wildcard pattern of the host or of a parent domain.
HostPermitted(host, perms) ==
    \/ AllUrls \in perms
    \/ HostPattern(host) \in perms
    \/ \E k \in 0..Len(host) :
          /\ k = 0 \/ host[k] = Dot
          /\ WildcardPattern(SubSeq(host, k + 1, Len(host))) \in perms

\* chrome.cookies.remove(details, callback): the callback's argument.  Without
\* host permission for the URL the call fails: null, and runtime.lastError set.
cookiesRemove(cookie, perms) ==
    IF HostPermitted(cookieToUrlHost(cookie), perms) THEN <<"details">> ELSE Null

\* The cookie store after the call.
cookiesAfterRemove(cookie, perms, cookies) ==
    IF cookiesRemove(cookie, perms) = Null THEN cookies ELSE cookies \ {cookie}

\* removeCookie: awaits cookiesRemove, pushes the 'remove' entry, returns true;
\* cookiesRemove never rejects, so the catch is not entered.
removeCookie(cookie, perms) == TRUE

\* removeCookie called for each cookie of a list in turn, each call awaited:
\* the log, the store, the calls made and the number of true results.
RECURSIVE removeInTurn(_, _, _)
removeInTurn(list, perms, acc) ==
    IF list = <<>> THEN acc
    ELSE LET c == Head(list)
             success == removeCookie(c, perms)
         IN removeInTurn(Tail(list), perms,
               [log |-> pushLog(acc.log, RemoveEntry(c)),
                cookies |-> cookiesAfterRemove(c, perms, acc.cookies),
                calls |-> Append(acc.calls, <<"cookies.remove", c, cookiesRemove(c, perms)>>),
                deleted |-> acc.deleted + (IF success THEN 1 ELSE 0)])

\* getAllCookiesForSite(domain)
getAllCookiesForSite(domain, cookies) ==
    cookiesGetAll(IF StartsWith(domain, <<Dot>>) THEN Tail(domain) ELSE domain, cookies)

----------------------------------------------------------------------------
(* SpecRemoval: the popup's deleteAllForDomain and the background's           *)
(* DELETE_ALL_FOR_SITE, DELETE_COOKIE and DELETE_COOKIES_BULK handlers.  The  *)
(* removeCookie calls of deleteAllForSite run concurrently: each is followed  *)
(* through its three awaits (cookies.remove, storage get, storage set).  The  *)
(* cookies.onChanged listener, which writes its own log entries, is left out. *)

RemovalMessages ==
    {[type |-> "DELETE_ALL_FOR_SITE", domain |-> d] : d \in {EmptyStr, <<Dot>> \o GoogleCom}}
    \cup {[type |-> "DELETE_COOKIE"]}
    \cup {[type |-> "DELETE_COOKIE", cookie |-> c] : c \in {CookieListing[1], CookieListing[4]}}
    \cup {[type |-> "DELETE_COOKIES_BULK", cookies |-> l] :
             l \in {<<>>, <<CookieListing[1]>>,
                    <<CookieListing[1], CookieListing[4]>>}}

InitRemoval ==
    /\ \/ /\ pc = "popup"
          /\ baseDomain \in {EmptyStr, GoogleCom}
          /\ message = NoMessage
       \/ /\ pc = "message"
          /\ baseDomain = EmptyStr
          /\ message \in RemovalMessages
    /\ hostname = EmptyStr
    /\ grantedOrigins = <<>>
    /\ resolved = Null
    /\ ps = NoState
    /\ cfg = NoConfig
    /\ prevPs = NoState
    /\ state = NoPopupState
    /\ btn = NoButton
    /\ permissions \in SUBSET {AllUrls, WildcardPattern(GoogleCom),
                              HostPattern(MailGoogleCom)}
    /\ request = NoRequest
    /\ page = NoPage
    /\ pending = <<>>
    /\ resolvedAgain = Null
    /\ prevBtn = NoButton
    /\ chrome = NoChrome
    /\ tabId = Null
    /\ partitionKey = Null
    /\ revokes = 0
    /\ cookieStore \in CookieStores
    /\ response = NoResponse
    /\ opLog \in {EarlierLog(0), EarlierLog(LogCap - 1)}
    /\ tasks = <<>>
    /\ cursor = 0
    /\ count = 0
    /\ store = NoStore
    /\ lastSet = NoSet

\* The popup's deleteAllForDomain(baseDomain) up to its DELETE_ALL_FOR_SITE
\* message: confirm, CHECK_PERMISSION for the wildcard, and the request for it
\* when it is missing (on Firefox the options page is opened instead).
DeleteAllForDomain ==
    /\ pc = "popup"
    /\ \E confirmed, firefox, granted \in BOOLEAN :
          LET wildcard == IF Includes(baseDomain, Dot) THEN WildcardPattern(baseDomain)
                          ELSE BasePattern(baseDomain)
              hasPerm == checkPermission(<<wildcard>>, permissions)
          IN IF Falsy(baseDomain) \/ ~confirmed \/ (~hasPerm /\ (firefox \/ ~granted))
             THEN /\ pc' = "returned"
                  /\ UNCHANGED <<permissions, message>>
             ELSE /\ permissions' = permissions \cup {wildcard}
                  /\ message' = [type |-> "DELETE_ALL_FOR_SITE", domain |-> baseDomain]
                  /\ pc' = "message"
    /\ UNCHANGED <<hostname, baseDomain, grantedOrigins, resolved, ps, cfg, prevPs, state,
                   btn, request, page, pending, resolvedAgain, prevBtn, chrome, tabId,
                   partitionKey, revokes, cookieStore, response, opLog, tasks, cursor,
                   count, store, lastSet>>

\* The DELETE_ALL_FOR_SITE handler up to Promise.all: the domain and the
\* permission are tested, the site's cookies are listed and removeCookie is
\* called for each of them.
DeleteAllForSite ==
    /\ pc = "message"
    /\ message.type = "DELETE_ALL_FOR_SITE"
    /\ IF Falsy(message.domain)
       THEN /\ response' = [error |-> "missing_domain"]
            /\ pc' = "answered"
            /\ tasks' = tasks
       ELSE IF ~chromePermissionsContains(<<AllUrls>>, permissions)
       THEN /\ response' = [error |-> "permission_denied"]
            /\ pc' = "answered"
            /\ tasks' = tasks
       ELSE /\ LET list == getAllCookiesForSite(message.domain, cookieStore)
               IN tasks' = [i \in 1..Len(list) |->
                               [entry |-> RemoveEntry(list[i]), at |-> "remove",
                                old |-> <<>>]]
            /\ pc' = "removing"
            /\ response' = response
    /\ UNCHANGED <<hostname, baseDomain, grantedOrigins, resolved, ps, cfg, prevPs, state,
                   btn, permissions, request, page, pending, resolvedAgain, prevBtn,
                   chrome, tabId, partitionKey, revokes, cookieStore, message, opLog,
                   cursor, count, store, lastSet>>

\* removeCookie: the callback of chrome.cookies.remove fires.
CookiesRemoved ==
    /\ pc = "removing"
    /\ \E i \in 1..Len(tasks) :
          /\ tasks[i].at = "remove"
          /\ cookieStore' = cookiesAfterRemove(tasks[i].entry.cookie, permissions,
                                                cookieStore)
          /\ chrome' = [chrome EXCEPT !.calls =
                           Append(@, <<"cookies.remove", tasks[i].entry.cookie,
                                       cookiesRemove(tasks[i].entry.cookie, permissions)>>)]
          /\ tasks' = [tasks EXCEPT ![i].at = "get"]
    /\ UNCHANGED <<pc, hostname, baseDomain, grantedOrigins, resolved, ps, cfg, prevPs,
                   state, btn, permissions, request, page, pending, resolvedAgain,
                   prevBtn, tabId, partitionKey, revokes, response, message, opLog,
                   cursor, count, store, lastSet>>

\* pushLog: storageGet answers with the log as it is now.
PushLogReads ==
    /\ pc \in {"removing", "importing", "logging", "answered"}
    /\ \E i \in 1..Len(tasks) :
          /\ tasks[i].at = "get"
          /\ tasks' = [tasks EXCEPT ![i].at = "set", ![i].old = opLog]
    /\ UNCHANGED <<pc, hostname, baseDomain, grantedOrigins, resolved, ps, cfg, prevPs,
                   state, btn, permissions, request, page, pending, resolvedAgain,
                   prevBtn, chrome, tabId, partitionKey, revokes, cookieStore, response,
                   message, opLog, cursor, count, store, lastSet>>

\* pushLog: storageSet stores the list read, with the entry in front, and
\* pushLog returns to its caller.
PushLogWrites ==
    /\ pc \in {"removing", "importing", "logging", "answered"}
    /\ \E i \in 1..Len(tasks) :
          /\ tasks[i].at = "set"
          /\ opLog' = pushLog(tasks[i].old, tasks[i].entry)
          /\ tasks' = [tasks EXCEPT ![i].at = "done", ![i].old = <<>>]
    /\ UNCHANGED <<pc, hostname, baseDomain, grantedOrigins, resolved, ps, cfg, prevPs,
                   state, btn, permissions, request, page, pending, resolvedAgain,
                   prevBtn, chrome, tabId, partitionKey, revokes, cookieStore, response,
                   message, cursor, count, store, lastSet>>

\* Promise.all resolves: { removed: results.filter(Boolean).length, total }.
DeleteAllAnswers ==
    /\ pc = "removing"
    /\ \A i \in 1..Len(tasks) : tasks[i].at = "done"
    /\ response' = [result |->
                       [removed |-> Cardinality({i \in 1..Len(tasks) :
                                        removeCookie(tasks[i].entry.cookie, permissions)}),
                        total |-> Len(tasks)]]
    /\ pc' = "answered"
    /\ UNCHANGED <<hostname, baseDomain, grantedOrigins, resolved, ps, cfg, prevPs, state,
                   btn, permissions, request, page, pending, resolvedAgain, prevBtn,
                   chrome, tabId, partitionKey, revokes, cookieStore, message, opLog,
                   tasks, cursor, count, store, lastSet>>

\* The DELETE_COOKIE handler.
DeleteCookie ==
    /\ pc = "message"
    /\ message.type = "DELETE_COOKIE"
    /\ IF "cookie" \notin DOMAIN message
       THEN /\ response' = [ok |-> FALSE, error |-> "no_cookie"]
            /\ UNCHANGED <<cookieStore, opLog, chrome>>
       ELSE LET out == removeInTurn(<<message.cookie>>, permissions,
                          [log |-> opLog, cookies |-> cookieStore, calls |-> chrome.calls,
                           deleted |-> 0])
            IN /\ response' = [ok |-> out.deleted = 1]
               /\ cookieStore' = out.cookies
               /\ opLog' = out.log
               /\ chrome' = [chrome EXCEPT !.calls = out.calls]
    /\ pc' = "answered"
    /\ UNCHANGED <<hostname, baseDomain, grantedOrigins, resolved, ps, cfg, prevPs, state,
                   btn, permissions, request, page, pending, resolvedAgain, prevBtn,
                   tabId, partitionKey, revokes, message, tasks, cursor, count, store,
                   lastSet>>

\* The DELETE_COOKIES_BULK handler.
DeleteCookiesBulk ==
    /\ pc = "message"
    /\ message.type = "DELETE_COOKIES_BULK"
    /\ IF Len(message.cookies) = 0
       THEN /\ response' = [ok |-> FALSE, error |-> "no_cookies_provided"]
            /\ UNCHANGED <<cookieStore, opLog, chrome, count>>
       ELSE LET out == removeInTurn(message.cookies, permissions,
                          [log |-> opLog, cookies |-> cookieStore, calls |-> chrome.calls,
                           deleted |-> 0])
            IN /\ response' = [ok |-> TRUE, deletedCount |-> out.deleted]
               /\ count' = out.deleted
               /\ cookieStore' = out.cookies
               /\ opLog' = out.log
               /\ chrome' = [chrome EXCEPT !.calls = out.calls]
    /\ pc' = "answered"
    /\ UNCHANGED <<hostname, baseDomain, grantedOrigins, resolved, ps, cfg, prevPs, state,
                   btn, permissions, request, page, pending, resolvedAgain, prevBtn,
                   tabId, partitionKey, revokes, message, tasks, cursor, store, lastSet>>

NextRemoval ==
    \/ DeleteAllForDomain
    \/ DeleteAllForSite
    \/ CookiesRemoved
    \/ PushLogReads
    \/ PushLogWrites
    \/ DeleteAllAnswers
    \/ DeleteCookie
    \/ DeleteCookiesBulk

SpecRemoval == InitRemoval /\ [][NextRemoval]_vars

----------------------------------------------------------------------------
(* Background service worker: importCookies *)

\* message.cookies: an array of entries, or a value that is no array.
JsArray(items) == [isArray |-> TRUE, items |-> items]
NotAnArray == [isArray |-> FALSE, items |-> <<>>]

\* An entry of the imported array; a missing field is undefined (Null here).
Entry(name, domain, path) == [name |-> name, domain |-> domain, path |-> path]

ImportLogEntry(n) == [type |-> "import", count |-> n]

\* chrome.cookies.set through cookiesSet: resolves when the extension holds
\* host permission for the URL, rejects with runtime.lastError otherwise.
cookiesSet(host, perms) == HostPermitted(host, perms)

\* One turn of the loop of importCookies for the entry c: whether
\* chrome.cookies.set was called, whether count was incremented, and the
\* cookie the browser stored (setObj names no domain: a cookie of the URL's host).
importEntry_countsBeforeSet(c, perms) ==
    LET host == IF Falsy(c.domain) THEN Null
                ELSE IF StartsWith(c.domain, <<Dot>>) THEN Tail(c.domain)
                ELSE c.domain
        path == IF Falsy(c.path) THEN <<"/">> ELSE c.path
    IN IF Falsy(host) THEN [called |-> FALSE, counted |-> FALSE, ok |-> FALSE]
       ELSE IF Falsy(c.name) THEN [called |-> FALSE, counted |-> FALSE, ok |-> FALSE]
       ELSE [called |-> TRUE, counted |-> TRUE, ok |-> cookiesSet(host, perms),
             cookie |-> Cookie(c.name, host, path)]

importEntry(c, perms) ==
    LET host == IF Falsy(c.domain) THEN Null
                ELSE IF StartsWith(c.domain, <<Dot>>) THEN Tail(c.domain)
                ELSE c.domain
        path == IF Falsy(c.path) THEN <<"/">> ELSE c.path
    IN IF Falsy(host) THEN [called |-> FALSE, counted |-> FALSE, ok |-> FALSE]
       ELSE IF Falsy(c.name) THEN [called |-> FALSE, counted |-> FALSE, ok |-> FALSE]
       ELSE [called |-> TRUE, counted |-> cookiesSet(host, perms),
             ok |-> cookiesSet(host, perms), cookie |-> Cookie(c.name, host, path)]

----------------------------------------------------------------------------
(* SpecImport: the IMPORT_COOKIES handler.  importCookies is followed entry  *)
(* by entry; every cookie it sets fires cookies.onChanged, whose listener    *)
(* pushes a 'cookie_changed' entry concurrently with the rest of the import. *)

ImportEntries ==
    {Entry(<<"sid">>, <<Dot>> \o GoogleCom, <<"/">>),
     Entry(<<"sid">>, MailGoogleCom, Null),
     Entry(<<"sid">>, Null, <<"/">>),
     Entry(Null, GoogleCom, <<"/">>)}

ImportMessages ==
    {[type |-> "IMPORT_COOKIES"], [type |-> "IMPORT_COOKIES", cookies |-> NotAnArray]}
    \cup {[type |-> "IMPORT_COOKIES", cookies |-> JsArray(l)] :
             l \in ListsUpTo(ImportEntries, MaxEntries)}

InitImport ==
    /\ pc = "message"
    /\ hostname = EmptyStr
    /\ baseDomain = EmptyStr
    /\ grantedOrigins = <<>>
    /\ resolved = Null
    /\ ps = NoState
    /\ cfg = NoConfig
    /\ prevPs = NoState
    /\ state = NoPopupState
    /\ btn = NoButton
    /\ permissions \in {{}, {HostPattern(MailGoogleCom)}, {AllUrls}}
    /\ request = NoRequest
    /\ page = NoPage
    /\ pending = <<>>
    /\ resolvedAgain = Null
    /\ prevBtn = NoButton
    /\ chrome = NoChrome
    /\ tabId = Null
    /\ partitionKey = Null
    /\ revokes = 0
    /\ cookieStore = {}
    /\ response = NoResponse
    /\ message \in ImportMessages
    /\ opLog = <<>>
    /\ tasks = <<>>
    /\ cursor = 0
    /\ count = 0
    /\ store = NoStore
    /\ lastSet = NoSet

\* The IMPORT_COOKIES handler up to the loop of importCookies: missing
\* cookies are answered at once, a non-array makes importCookies throw and
\* the listener's catch answers with the error's message.
ImportCookies ==
    /\ pc = "message"
    /\ message.type = "IMPORT_COOKIES"
    /\ IF "cookies" \notin DOMAIN message
       THEN /\ response' = [error |-> "missing_cookies"]
            /\ pc' = "answered"
       ELSE IF ~message.cookies.isArray
       THEN /\ response' = [error |-> "Import expects an array"]
            /\ pc' = "answered"
       ELSE /\ response' = response
            /\ pc' = "importing"
    /\ cursor' = 0
    /\ count' = 0
    /\ UNCHANGED <<hostname, baseDomain, grantedOrigins, resolved, ps, cfg, prevPs, state,
                   btn, permissions, request, page, pending, resolvedAgain, prevBtn,
                   chrome, tabId, partitionKey, revokes, cookieStore, message, opLog,
                   tasks, store, lastSet>>

\* One turn of the loop: the entry is skipped, or chrome.cookies.set is called
\* and awaited; a cookie that was set fires cookies.onChanged, whose listener
\* calls pushLog.
ImportEntry ==
    /\ pc = "importing"
    /\ cursor < Len(message.cookies.items)
    /\ LET c == message.cookies.items[cursor + 1]
           turn == importEntry(c, permissions)
       IN /\ count' = count + (IF turn.counted THEN 1 ELSE 0)
          /\ chrome' = IF turn.called
                       THEN [chrome EXCEPT !.calls =
                                Append(@, <<"cookies.set", cursor + 1, turn.ok>>)]
                       ELSE chrome
          /\ cookieStore' = IF turn.ok THEN cookieStore \cup {turn.cookie} ELSE cookieStore
          /\ tasks' = IF turn.ok
                      THEN Append(tasks, [entry |-> ChangedEntry(cursor + 1), at |-> "get",
                                          old |-> <<>>])
                      ELSE tasks
    /\ cursor' = cursor + 1
    /\ UNCHANGED <<pc, hostname, baseDomain, grantedOrigins, resolved, ps, cfg, prevPs,
                   state, btn, permissions, request, page, pending, resolvedAgain,
                   prevBtn, tabId, partitionKey, revokes, response, message, opLog, store,
                   lastSet>>

\* After the loop: pushLog({ type: 'import', count }) is called.
ImportPushLog ==
    /\ pc = "importing"
    /\ cursor = Len(message.cookies.items)
    /\ tasks' = Append(tasks, [entry |-> ImportLogEntry(count), at |-> "get", old |-> <<>>])
    /\ pc' = "logging"
    /\ UNCHANGED <<hostname, baseDomain, grantedOrigins, resolved, ps, cfg, prevPs, state,
                   btn, permissions, request, page, pending, resolvedAgain, prevBtn,
                   chrome, tabId, partitionKey, revokes, cookieStore, response, message,
                   opLog, cursor, count, store, lastSet>>

\* pushLog has returned: return { imported: count }, sendResponse({ res }).
ImportAnswers ==
    /\ pc = "logging"
    /\ \E i \in 1..Len(tasks) : tasks[i].entry.type = "import" /\ tasks[i].at = "done"
    /\ response' = [res |-> [imported |-> count]]
    /\ pc' = "answered"
    /\ UNCHANGED <<hostname, baseDomain, grantedOrigins, resolved, ps, cfg, prevPs, state,
                   btn, permissions, request, page, pending, resolvedAgain, prevBtn,
                   chrome, tabId, partitionKey, revokes, cookieStore, message, opLog,
                   tasks, cursor, count, store, lastSet>>

NextImport ==
    \/ ImportCookies
    \/ ImportEntry
    \/ ImportPushLog
    \/ PushLogReads
    \/ PushLogWrites
    \/ ImportAnswers

SpecImport == InitImport /\ [][NextImport]_vars

----------------------------------------------------------------------------
(* UI store (utils/state.js) *)

\* A state of the store is the pair <<viewMode, searchTerm>>; a patch names a
\* value for some of the keys and Keep for the others.
Keep == "#keep"

defaultState == <<"site", "">>

StoreStates == {<<v, t>> : v \in {"site", "all"}, t \in {"", "a"}}

Patches == {<<v, t>> : v \in {"site", "all", Keep}, t \in {"", "a", Keep}}

\* { ...state, ...patch }
Merge(s, patch) == [i \in 1..Len(s) |-> IF patch[i] = Keep THEN s[i] ELSE patch[i]]

\* The listener's state = { ...defaultState, ...newValue }.
onChangedState(newValue) == Merge(defaultState, newValue)

----------------------------------------------------------------------------
(* SpecStore: set calls on one store while the storage area applies the     *)
(* writes of persist() and delivers their storage.onChanged events, both in *)
(* the order of the calls                                                   *)

InitStore ==
    /\ pc = "store"
    /\ hostname = EmptyStr
    /\ baseDomain = EmptyStr
    /\ grantedOrigins = <<>>
    /\ resolved = Null
    /\ ps = NoState
    /\ cfg = NoConfig
    /\ prevPs = NoState
    /\ state = NoPopupState
    /\ btn = NoButton
    /\ permissions = {}
    /\ request = NoRequest
    /\ page = NoPage
    /\ pending = <<>>
    /\ resolvedAgain = Null
    /\ prevBtn = NoButton
    /\ chrome = NoChrome
    /\ tabId = Null
    /\ partitionKey = Null
    /\ revokes = 0
    /\ cookieStore = {}
    /\ response = NoResponse
    /\ message = NoMessage
    /\ opLog = <<>>
    /\ tasks = <<>>
    /\ cursor = 0
    /\ count = 0
    /\ \E stored \in {<<>>} \cup {<<s>> : s \in StoreStates} :
          store = [state |-> IF stored = <<>> THEN defaultState
                             ELSE Merge(defaultState, stored[1]),
                   storage |-> stored, writes |-> <<>>, events |-> <<>>]
    /\ lastSet = NoSet

\* set(partial): nothing happens when the merged state is the state; else the
\* state is replaced and persist() hands it to the storage area.
Set ==
    /\ pc = "store"
    /\ \E patch \in Patches :
          LET nextState == Merge(store.state, patch)
          IN /\ lastSet' = [patch |-> patch, state |-> nextState]
             /\ IF nextState = store.state
                THEN store' = store
                ELSE /\ Len(store.writes) + Len(store.events) < MaxPersists
                     /\ store' = [store EXCEPT !.state = nextState,
                                               !.writes = Append(@, nextState)]
    /\ UNCHANGED <<pc, hostname, baseDomain, grantedOrigins, resolved, ps, cfg, prevPs,
                   state, btn, permissions, request, page, pending, resolvedAgain,
                   prevBtn, chrome, tabId, partitionKey, revokes, cookieStore, response,
                   message, opLog, tasks, cursor, count>>

\* The storage area applies the oldest write of persist(); a change of the
\* stored value is announced by a storage.onChanged event.
StorageSet ==
    /\ pc = "store"
    /\ store.writes # <<>>
    /\ LET value == Head(store.writes)
       IN store' = [store EXCEPT !.writes = Tail(@),
                                 !.storage = <<value>>,
                                 !.events = IF store.storage = <<value>> THEN @
                                            ELSE Append(@, value)]
    /\ UNCHANGED <<pc, hostname, baseDomain, grantedOrigins, resolved, ps, cfg, prevPs,
                   state, btn, permissions, request, page, pending, resolvedAgain,
                   prevBtn, chrome, tabId, partitionKey, revokes, cookieStore, response,
                   message, opLog, tasks, cursor, count, lastSet>>

\* The storage.onChanged listener runs for the oldest event in flight.
OnChanged ==
    /\ pc = "store"
    /\ store.events # <<>>
    /\ store' = [store EXCEPT !.events = Tail(@),
                              !.state = onChangedState(Head(store.events))]
    /\ UNCHANGED <<pc, hostname, baseDomain, grantedOrigins, resolved, ps, cfg, prevPs,
                   state, btn, permissions, request, page, pending, resolvedAgain,
                   prevBtn, chrome, tabId, partitionKey, revokes, cookieStore, response,
                   message, opLog, tasks, cursor, count, lastSet>>

NextStore == Set \/ StorageSet \/ OnChanged

SpecStore == InitStore /\ [][NextStore]_vars

----------------------------------------------------------------------------
(* Claims about the permission state engine *)

Granted == Range(grantedOrigins)

\* ps and cfg are the results for the current hostname, baseDomain, grantedOrigins.
Computed == pc \in {"computed", "revoked", "granted"}

\* A hostname proper and a base domain proper.
ProperPair == ~Falsy(hostname) /\ ~Falsy(baseDomain)

BaseView == hostname = baseDomain \/ hostname = WwwOf(baseDomain)

SiteTierOpen ==
    /\ AllUrls \notin Granted
    /\ WildcardPattern(baseDomain) \notin Granted

\* C1: whenever the granted list contains '<all_urls>', whatever else it
\* contains, computePermissionState returns effective 'global' with revoke
\* target '<all_urls>'; the button config built in the source for the same
\* inputs, when visible, is the revoke of exactly '<all_urls>'.
C1_GlobalDominates ==
    (Computed /\ AllUrls \in Granted) =>
        /\ ps.effective = "global"
        /\ ps.revokeTarget = AllUrls
        /\ cfg.visible => (cfg.action = "revoke" /\ cfg.origins = <<AllUrls>>)

C1_Witness ==
    /\ pc = "computed"
    /\ hostname = MailGoogleCom
    /\ baseDomain = GoogleCom
    /\ Granted = {AllUrls, WildcardPattern(GoogleCom), BasePattern(GoogleCom),
                  HostPattern(MailGoogleCom)}
    /\ ps.effective = "global"
    /\ cfg.origins = <<AllUrls>>

\* C2: on a subdomain view of a hostname proper, with neither '<all_urls>'
\* nor the wildcard granted: host only gives 'none' missing [baseOnly]; base
\* only gives 'none' missing [host]; neither gives 'none' missing
\* [host, baseOnly] in that order; both give 'pair' with the host pattern
\* (not the base-only pattern) as revoke target.  The button config built in
\* the source carries the same grant list or the same single revoke target.
C2_SubdomainCombinations ==
    (Computed /\ ProperPair /\ ~BaseView /\ SiteTierOpen) =>
        LET hostP == HostPattern(hostname)
            baseP == BasePattern(baseDomain)
            hasH == hostP \in Granted
            hasB == baseP \in Granted
        IN /\ (hasH /\ ~hasB) =>
                  /\ ps.effective = "none" /\ ps.grantMissing = <<baseP>>
                  /\ cfg.action = "grant" /\ cfg.origins = <<baseP>>
           /\ (~hasH /\ hasB) =>
                  /\ ps.effective = "none" /\ ps.grantMissing = <<hostP>>
                  /\ cfg.action = "grant" /\ cfg.origins = <<hostP>>
           /\ (~hasH /\ ~hasB) =>
                  /\ ps.effective = "none" /\ ps.grantMissing = <<hostP, baseP>>
                  /\ cfg.action = "grant" /\ cfg.origins = <<hostP, baseP>>
           /\ (hasH /\ hasB) =>
                  /\ ps.effective = "pair" /\ ps.revokeTarget = hostP
                  /\ ps.revokeTarget # baseP
                  /\ cfg.action = "revoke" /\ cfg.origins = <<hostP>>

C2_Witness ==
    /\ pc = "computed"
    /\ hostname = MailGoogleCom
    /\ baseDomain = GoogleCom
    /\ Granted = {HostPattern(MailGoogleCom), BasePattern(GoogleCom)}
    /\ ps.effective = "pair"
    /\ ps.revokeTarget = HostPattern(MailGoogleCom)

\* C3: on a base-domain view of a hostname proper, with neither '<all_urls>'
\* nor the wildcard granted, the result is 'baseOnly' with the base-only
\* pattern as revoke target exactly when the base-only pattern is granted,
\* and otherwise 'none' missing [baseOnly], whether or not the exact-host
\* pattern is granted.  The button config built in the source carries the
\* same revoke target or the same grant list.
C3_BaseViewBaseOnly ==
    (Computed /\ ProperPair /\ BaseView /\ SiteTierOpen) =>
        LET baseP == BasePattern(baseDomain)
        IN IF baseP \in Granted
           THEN /\ ps.effective = "baseOnly" /\ ps.revokeTarget = baseP
                /\ cfg.action = "revoke" /\ cfg.origins = <<baseP>>
           ELSE /\ ps.effective = "none" /\ ps.grantMissing = <<baseP>>
                /\ cfg.action = "grant" /\ cfg.origins = <<baseP>>

C3_Witness ==
    /\ pc = "computed"
    /\ hostname = WwwGoogleCom
    /\ baseDomain = GoogleCom
    /\ Granted = {BasePattern(GoogleCom), HostPattern(WwwGoogleCom)}
    /\ ps.effective = "baseOnly"
    /\ ps.revokeTarget = BasePattern(GoogleCom)

\* C4: whenever the wildcard pattern of the base domain is granted and
\* '<all_urls>' is not, the result is 'wildcard' with the wildcard pattern as
\* revoke target, on either view and whatever host / base-only grants exist;
\* the button config built in the source is the revoke of exactly the wildcard.
C4_WildcardDominates ==
    (/\ Computed
     /\ ~Falsy(baseDomain)
     /\ WildcardPattern(baseDomain) \in Granted
     /\ AllUrls \notin Granted) =>
        /\ ps.effective = "wildcard"
        /\ ps.revokeTarget = WildcardPattern(baseDomain)
        /\ cfg.action = "revoke"
        /\ cfg.origins = <<WildcardPattern(baseDomain)>>

C4_Witness ==
    /\ pc = "computed"
    /\ hostname = MailGoogleCom
    /\ baseDomain = GoogleCom
    /\ Granted = {WildcardPattern(GoogleCom), BasePattern(GoogleCom),
                  HostPattern(MailGoogleCom)}
    /\ ps.effective = "wildcard"

Rank(effective) ==
    CASE effective = "global"   -> 3
      [] effective = "wildcard" -> 2
      [] effective = "pair"     -> 1
      [] effective = "baseOnly" -> 1
      [] OTHER                  -> 0

\* C5 as stated: removing the revoke target from the granted set and
\* recomputing yields effective 'none'.
C5_RevokeDropsToNone ==
    pc = "revoked" => ps.effective = "none"

\* C5 amended: removing the revoke target and recomputing yields a strictly
\* lower tier (none < baseOnly = pair < wildcard < global), and yields 'none'
\* when the tier was 'pair' or 'baseOnly'; the button config built in the
\* source for the remaining grants is on that lower tier too (it revokes the
\* new revoke target, or grants when the tier is 'none').
C5_RevokeLowersTier ==
    pc = "revoked" =>
        /\ prevPs.revokeTarget \notin Granted
        /\ Rank(ps.effective) < Rank(prevPs.effective)
        /\ prevPs.effective \in {"pair", "baseOnly"} => ps.effective = "none"
        /\ cfg.visible =>
               IF ps.effective = "none" THEN cfg.action = "grant"
               ELSE cfg.action = "revoke" /\ cfg.origins = <<ps.revokeTarget>>

C5_Witness ==
    /\ pc = "revoked"
    /\ prevPs.effective = "global"
    /\ prevPs.revokeTarget = AllUrls
    /\ ps.effective = "wildcard"

\* C6: for a hostname and base domain proper with effective 'none', no
\* pattern of grantMissing is already granted, and after all of them are
\* granted the recomputed tier is 'baseOnly' on a base-domain view and 'pair'
\* on a subdomain view; the button config built in the source asks for the
\* same patterns.
C6_GrantMissingCompletes ==
    /\ (pc = "computed" /\ ProperPair /\ ps.effective = "none") =>
           /\ \A i \in 1..Len(ps.grantMissing) : ps.grantMissing[i] \notin Granted
           /\ cfg.action = "grant"
           /\ cfg.origins = ps.grantMissing
    /\ (pc = "granted" /\ ProperPair) =>
           /\ \A i \in 1..Len(prevPs.grantMissing) : prevPs.grantMissing[i] \in Granted
           /\ ps.effective = (IF BaseView THEN "baseOnly" ELSE "pair")

C6_Witness ==
    /\ pc = "granted"
    /\ hostname = MailGoogleCom
    /\ baseDomain = GoogleCom
    /\ prevPs.effective = "none"
    /\ Len(prevPs.grantMissing) = 2
    /\ ps.effective = "pair"

\* C7: in every result, grantMissing is empty whenever effective is not
\* 'none', and revokeTarget is null exactly when effective is 'none'.
C7_MissingOnlyWhenNone ==
    Computed =>
        /\ ps.effective # "none" => ps.grantMissing = <<>>
        /\ ps.revokeTarget = Null <=> ps.effective = "none"

C7_Witness ==
    /\ pc = "computed"
    /\ ps.effective = "pair"
    /\ ps.hasHost /\ ps.hasBaseOnly
    /\ ps.grantMissing = <<>>
    /\ ps.revokeTarget # Null

Tiers == {"global", "wildcard", "baseOnly", "pair", "none"}

\* A structurally valid result.
ValidState ==
    /\ ps.effective \in Tiers
    /\ ps.isBaseDomain \in BOOLEAN
    /\ \A i \in 1..Len(ps.grantMissing) : ps.grantMissing[i] # Null
    /\ ps.revokeTarget = Null \/ ps.revokeTarget \in Granted \cup {AllUrls}

\* C14 (as claimed): every call returns a valid result, and without a base
\* domain the result is effective 'none', grantMissing [], revokeTarget null.
C14_NoBaseIsNone ==
    Computed =>
        /\ ValidState
        /\ Falsy(baseDomain) =>
              /\ ps.effective = "none"
              /\ ps.grantMissing = <<>>
              /\ ps.revokeTarget = Null

\* C14 (amended): every call returns a valid result for null and empty
\* hostnames, base domains and granted lists; without a base domain
\* buildPatterns is all null and the result is 'none' / [] / null unless
\* '<all_urls>' is granted, when it is 'global' / [] / '<all_urls>'.  The
\* button config built in the source is invisible without a base domain,
\* whatever is granted.
C14_NoBaseIsNoneBelowGlobal ==
    Computed =>
        /\ ValidState
        /\ Falsy(baseDomain) =>
              /\ buildPatterns(hostname, baseDomain)
                    = [host |-> Null, baseOnly |-> Null, wildcard |-> Null]
              /\ ~ps.hasWildcard /\ ~ps.hasBaseOnly /\ ~ps.hasHost
              /\ ps.grantMissing = <<>>
              /\ IF AllUrls \in Granted
                 THEN ps.effective = "global" /\ ps.revokeTarget = AllUrls
                 ELSE ps.effective = "none" /\ ps.revokeTarget = Null
              /\ ~cfg.visible /\ cfg.origins = <<>>

C14_Witness ==
    /\ pc = "computed"
    /\ hostname = MailGoogleCom
    /\ baseDomain = Null
    /\ Granted = {HostPattern(MailGoogleCom), BasePattern(GoogleCom), WildcardPattern(GoogleCom)}
    /\ ps.effective = "none"
    /\ ~cfg.visible

BaseDomainButton ==
    /\ cfg.origins = <<BasePattern(baseDomain)>>
    /\ cfg.text \in {<<"Revoke Access for ">> \o baseDomain, <<"Grant Access to ">> \o baseDomain}

\* C16: isBaseHost(hostname, baseDomain) is true exactly when the hostname
\* equals the base domain or 'www.' + the base domain, and false when both are
\* empty or null; no other prefix ('m.', 'mail.') makes a host base-equivalent.
\* The source agrees: below the wildcard tier and with a base domain, the
\* button config is the base-domain one exactly for those hostnames.
C16_BaseHostExactly ==
    Computed =>
       /\ ps.isBaseDomain = (/\ BaseView
                             /\ ~(Falsy(hostname) /\ Falsy(baseDomain)))
       /\ (~Falsy(baseDomain) /\ SiteTierOpen) => (BaseDomainButton <=> ps.isBaseDomain)

\* On m.google.com with the base-only pattern granted, the host is not
\* base-equivalent: the tier is 'none' and the button asks for the host pattern.
C16_Witness ==
    /\ pc = "computed"
    /\ hostname = MGoogleCom
    /\ baseDomain = GoogleCom
    /\ grantedOrigins = <<BasePattern(GoogleCom)>>
    /\ ~ps.isBaseDomain
    /\ ps.effective = "none"
    /\ cfg.action = "grant"
    /\ cfg.origins = <<HostPattern(MGoogleCom)>>

\* The patterns the engine worked with, read back from its result: what it
\* tested for membership, what it asks for and what it offers to revoke.
PatternsInResult(host, baseOnly, wildcard) ==
    /\ ps.hasWildcard = (wildcard # Null /\ wildcard \in Granted)
    /\ ps.hasBaseOnly = (baseOnly # Null /\ baseOnly \in Granted)
    /\ ps.hasHost = (host # Null /\ host \in Granted)
    /\ Range(ps.grantMissing) \subseteq ({host, baseOnly} \ {Null})
    /\ ps.revokeTarget \in {Null, AllUrls, host, baseOnly, wildcard}
    /\ (ps.effective = "none" /\ ~ps.isBaseDomain /\ Granted = {})
          => ps.grantMissing = SelectSeq(<<host, baseOnly>>, LAMBDA o : o # Null)
    /\ ps.effective = "wildcard" => ps.revokeTarget = wildcard

\* C17: buildPatterns(hostname, baseDomain) gives three nulls when the base
\* domain is empty or null; otherwise baseOnly is '*://<baseDomain>/*' and
\* wildcard is '*://*.<baseDomain>/*', and host is '*://<hostname>/*' for a
\* non-empty hostname and null for an empty or null one.  The engine's result
\* is built on exactly these patterns.
C17_PatternsOfHostAndBase ==
    Computed =>
       LET p == buildPatterns(hostname, baseDomain)
       IN /\ Falsy(baseDomain) =>
                /\ p = [host |-> Null, baseOnly |-> Null, wildcard |-> Null]
                /\ PatternsInResult(Null, Null, Null)
          /\ ~Falsy(baseDomain) =>
                LET host == IF Falsy(hostname) THEN Null
                            ELSE <<"*://">> \o hostname \o <<"/*">>
                    baseOnly == <<"*://">> \o baseDomain \o <<"/*">>
                    wildcard == <<"*://", "*", Dot>> \o baseDomain \o <<"/*">>
                IN /\ p = [host |-> host, baseOnly |-> baseOnly, wildcard |-> wildcard]
                   /\ PatternsInResult(host, baseOnly, wildcard)

\* A base domain without a hostname: the host pattern is null, so with nothing
\* granted the engine asks for the base-only pattern alone.
C17_Witness ==
    /\ pc = "computed"
    /\ hostname = EmptyStr
    /\ baseDomain = GoogleCom
    /\ grantedOrigins = <<>>
    /\ buildPatterns(hostname, baseDomain).host = Null
    /\ ps.effective = "none"
    /\ ps.grantMissing = <<<<"*://", "google", Dot, "com", "/*">>>>

\* The other hostnames under the current base domain.
OtherSubdomains ==
    {h \in EngineHosts \ {Null} :
        h # hostname /\ EndsWith(h, <<Dot>> \o baseDomain)}

\* The grant the button offered with nothing granted was accepted, and nothing
\* else is granted.
SiteGrantFromNothing ==
    /\ pc = "granted"
    /\ ProperPair
    /\ grantedOrigins = prevPs.grantMissing
    /\ grantedOrigins = buildPermissionButtonConfig("site", hostname, baseDomain, {}).origins

\* C18: a site grant made from the popup covers the related subdomains of the
\* same base domain: after the grant offered on one host, starting from no
\* granted origins, is accepted, the tier recomputed for every other subdomain
\* of that base domain is not 'none'.
C18_SiteGrantCoversSubdomains ==
    SiteGrantFromNothing =>
       \A other \in OtherSubdomains :
          computePermissionState(other, baseDomain, grantedOrigins).effective # "none"

----------------------------------------------------------------------------
(* Claims about the popup's permission button *)

\* The button now shown was rendered by the site branch of updatePermissionUI.
SiteRendered == ps.effective # "unset" /\ btn.display = "block"

ButtonOrigins == Split(btn.origin, Comma)

PopupPatterns == buildPatterns(state.currentHost, state.currentBaseDomain)

OnBaseHost == isBaseHost(state.currentHost, state.currentBaseDomain)

\* A granted exact-host pattern of another subdomain of the current base domain.
SiblingGranted ==
    \E o \in permissions :
       /\ o \notin {AllUrls, PopupPatterns.wildcard, PopupPatterns.baseOnly, PopupPatterns.host}
       /\ EndsWith(o, <<Dot>> \o state.currentBaseDomain \o <<"/*">>)

\* The message a click sends is the one request has gained.
Clicked == BagCardinality(request') = BagCardinality(request) + 1

Sent == CHOOSE msg \in BagToSet(request') :
           CopiesIn(msg, request') = CopiesIn(msg, request) + 1

\* What the engine's result names: the action and its origins.
EngineAction == IF ps.effective = "none" THEN "grant" ELSE "revoke"

EngineOrigins == IF ps.effective = "none" THEN ps.grantMissing ELSE <<ps.revokeTarget>>

MessageType(action) == IF action = "grant" THEN "REQUEST_PERMISSION" ELSE "REVOKE_PERMISSION"

SiteTarget == IF OnBaseHost THEN PopupPatterns.baseOnly ELSE PopupPatterns.host

\* The base-only pattern goes with a subdomain's host pattern when it is
\* granted and no sibling subdomain's host pattern is.
BaseGoesToo == ~OnBaseHost /\ PopupPatterns.baseOnly \in permissions /\ ~SiblingGranted

AmendedAction ==
    IF ps.effective = "none" THEN "grant"
    ELSE IF ps.effective = "global"
         THEN (IF SiteTarget \in permissions THEN "revoke" ELSE "grant")
         ELSE "revoke"

AmendedOrigins ==
    IF ps.effective = "none" THEN ps.grantMissing
    ELSE IF ps.effective \in {"wildcard", "baseOnly"} THEN <<ps.revokeTarget>>
    ELSE IF ps.effective = "pair"
         THEN <<ps.revokeTarget>> \o (IF BaseGoesToo THEN <<PopupPatterns.baseOnly>> ELSE <<>>)
    ELSE IF SiteTarget \in permissions
         THEN <<SiteTarget>> \o (IF BaseGoesToo THEN <<PopupPatterns.baseOnly>> ELSE <<>>)
         ELSE <<SiteTarget>>

SubdomainRevoke == SiteRendered /\ ~OnBaseHost /\ btn.action = "revoke"

\* C22: on a subdomain view with tier 'pair' the revoke list always contains
\* the current host pattern, and contains the base-only pattern only when no
\* other granted pattern '*://<labels>.<base>/*' (other than the current host
\* and the wildcard) exists; the same rule holds for the revoke offered under
\* '<all_urls>'.  Consequently no step taken on a subdomain view removes a
\* base-only grant while a sibling subdomain's host pattern is granted.
C22_BaseOnlySharedWithSiblings ==
    [][ /\ (SubdomainRevoke /\ ps.effective = "pair") =>
              PopupPatterns.host \in Range(ButtonOrigins)
        /\ (SubdomainRevoke /\ PopupPatterns.baseOnly \in Range(ButtonOrigins)) =>
              ~SiblingGranted
        /\ (~OnBaseHost /\ ~Falsy(state.currentBaseDomain) /\ SiblingGranted
               /\ PopupPatterns.baseOnly \in permissions) =>
              PopupPatterns.baseOnly \in permissions'
      ]_vars

\* On mail.google.com with the pair and the host pattern of accounts.google.com
\* granted, the revoke has been clicked: the message names the host pattern alone.
C22_Witness ==
    /\ SubdomainRevoke
    /\ ps.effective = "pair"
    /\ state.currentHost = MailGoogleCom
    /\ permissions = {HostPattern(MailGoogleCom), BasePattern(GoogleCom),
                      HostPattern(AccountsGoogleCom)}
    /\ request = SetToBag({[type |-> "REVOKE_PERMISSION",
                             origins |-> <<HostPattern(MailGoogleCom)>>]})

----------------------------------------------------------------------------
(* Claims about the base-domain resolver *)

\* The multi-label-suffix table of the specification (section 4.1, step 4).
MultiLabelSuffixTable ==
    {<<"co", Dot, "uk">>, <<"ac", Dot, "uk">>, <<"gov", Dot, "uk">>,
     <<"co", Dot, "jp">>, <<"com", Dot, "au">>, <<"net", Dot, "au">>,
     <<"com", Dot, "br">>, <<"com", Dot, "cn">>, <<"co", Dot, "nz">>,
     <<"com", Dot, "mx">>, <<"com", Dot, "tr">>}

\* The labels of a hostname: a single leading dot stripped, then split on '.'.
LabelsOf(h) == Split(IF StartsWith(h, <<Dot>>) THEN Tail(h) ELSE h, Dot)

\* A hostname proper: every label is non-empty.
WellFormed(h) == \A i \in 1..Len(LabelsOf(h)) : LabelsOf(h)[i] # EmptyStr

LastLabels(h, k) == Join(SliceLast(LabelsOf(h), k), Dot)

\* C9: a hostname of three or more labels whose last two labels are an entry
\* of the multi-label-suffix table resolves to its last three labels.
C9_TableSuffixGivesLastThree ==
    (/\ pc = "resolved"
     /\ WellFormed(hostname)
     /\ Len(LabelsOf(hostname)) >= 3
     /\ LastLabels(hostname, 2) \in MultiLabelSuffixTable)
    => resolved = LastLabels(hostname, 3)

\* C10: a hostname of three or more labels whose last two labels are not an
\* entry of the multi-label-suffix table resolves to its last two labels.
C10_UnlistedSuffixGivesLastTwo ==
    (/\ pc = "resolved"
     /\ WellFormed(hostname)
     /\ Len(LabelsOf(hostname)) >= 3
     /\ LastLabels(hostname, 2) \notin MultiLabelSuffixTable)
    => resolved = LastLabels(hostname, 2)

\* C11: the resolver is idempotent - applied to its own result it returns
\* that result - for every hostname, a leading dot and empty labels included.
C11_Idempotent ==
    pc = "resolvedAgain" => resolvedAgain = resolved

\* The hostname with a single leading dot stripped.
Stripped(h) == IF StartsWith(h, <<Dot>>) THEN Tail(h) ELSE h

\* C12: a hostname of at most two labels (as split on '.' after the strip)
\* resolves to itself with a single leading dot stripped and nothing else
\* changed: '' to '', a single label and two labels unchanged, whether or not
\* the two labels are a suffix of the table.
C12_ShortHostnameUnchanged ==
    (pc = "resolved" /\ Len(LabelsOf(hostname)) <= 2) => resolved = Stripped(hostname)

C12_Witness ==
    /\ pc = "resolved"
    /\ hostname = <<Dot, "co", Dot, "uk">>
    /\ resolved = <<"co", Dot, "uk">>

\* C13: the resolved base domain has no empty label: it is '' or each of
\* its labels is non-empty (no leading or trailing '.', no '..').
C13_NoEmptyLabel ==
    pc = "resolved" =>
        \/ resolved = EmptyStr
        \/ \A i \in 1..Len(Split(resolved, Dot)) : Split(resolved, Dot)[i] # EmptyStr

----------------------------------------------------------------------------
(* Claims about getPartitionKey *)

\* The key derived from the tab's URL, null when tabs.get or the URL is missing
\* or the URL does not parse.
FallbackKey ==
    IF chrome.tabsGet /\ chrome.tabUrl \notin {Undefined, EmptyStr}
                      /\ ParseUrl(chrome.tabUrl) # Null
    THEN KeyOf(<<ParseUrl(chrome.tabUrl)[1], "//">> \o getBaseDomain(ParseUrl(chrome.tabUrl)[2]))
    ELSE Null

\* C19: with an integer tabId, getPartitionKey returns the key delivered by
\* chrome.cookies.getPartitionKey, called with {tabId, frameId: 0}, whenever
\* that API exists; only when the API is absent does it fall back to
\* {topLevelSite: scheme + '//' + getBaseDomain(host of the tab's URL)}; it
\* returns null when neither source is available.
C19_ApiKeyBeforeFallback ==
    (pc = "keyed" /\ chrome.cookies /\ IsInteger(tabId)) =>
       IF chrome.hasGetPartitionKey
       THEN /\ partitionKey = (IF chrome.delivers = Undefined THEN Null ELSE chrome.delivers)
            /\ chrome.calls = <<<<"cookies.getPartitionKey", tabId, 0>>>>
       ELSE partitionKey = FallbackKey

----------------------------------------------------------------------------
(* Claims about the popup's permission requests *)

\* C20: grant and revoke requests issued by the permission button are
\* serialized: at no time are two permission requests from the popup in flight
\* together, so a second click cannot act on the button's origins before the
\* first request has been answered and the button recomputed.
C20_RequestsSerialized == BagCardinality(request) <= 1

----------------------------------------------------------------------------
(* Claims about successive revoke clicks *)

\* The action the followed popup's button offers.
Offered == IF pc = "siteButton" THEN btn.action ELSE cfg.action

----------------------------------------------------------------------------
(* Claims about the background's access gate and cookie listing *)

\* The granted set in one listing, as the engine takes it.
OriginListing ==
    <<AllUrls, WildcardPattern(GoogleCom), BasePattern(GoogleCom),
      HostPattern(MailGoogleCom), HostPattern(WwwGoogleCom)>>

\* The engine's tier for the handler's hostname, its base and the granted set.
GateTier ==
    computePermissionState(hostname, baseDomain,
                           SelectSeq(OriginListing, LAMBDA o : o \in permissions)).effective

GateAnswered == pc = "answered" /\ "error" \notin DOMAIN response

\* C23: the background's access gate agrees with the engine's tier: with
\* permissionsContains taken as inclusion in the granted set, the
\* GET_ACTIVE_TAB_COOKIES handler answers {limited: true} exactly when the
\* effective tier for the tab's hostname, its getBaseDomain and the same
\* granted set is 'none', and returns cookies exactly when the tier is
\* 'global', 'wildcard', 'pair' or 'baseOnly'.
C23_GateAgreesWithTier ==
    GateAnswered =>
        /\ ("limited" \in DOMAIN response) <=> (GateTier = "none")
        /\ ("cookies" \in DOMAIN response)
               <=> (GateTier \in {"global", "wildcard", "pair", "baseOnly"})

\* C28: getCookiesForHostAndBase(hostname, base) returns only cookies whose
\* domain is one of hostname, '.' + hostname, base or '.' + base, never a
\* cookie of a sibling subdomain of the base, and the returned list holds no
\* two cookies with the same name, domain, path (default '/') and storeId.
PathOf(c) == IF Falsy(c.path) THEN <<"/">> ELSE c.path

C28_HostAndBaseOnly ==
    (pc = "answered" /\ "cookies" \in DOMAIN response) =>
        LET list == response.cookies
        IN /\ \A i \in 1..Len(list) :
                 /\ list[i].domain \in {hostname, <<Dot>> \o hostname,
                                        baseDomain, <<Dot>> \o baseDomain}
                 /\ list[i] \in cookieStore
           /\ \A i, j \in 1..Len(list) :
                 (/\ list[i].name = list[j].name
                  /\ list[i].domain = list[j].domain
                  /\ PathOf(list[i]) = PathOf(list[j])
                  /\ list[i].storeId = list[j].storeId) => i = j

\* A subdomain tab whose store holds a sibling's cookie, a deeper subdomain's
\* cookie and two google.com cookies that differ in the path only by default;
\* the answer lists one of the two.
C28_Witness ==
    /\ pc = "answered"
    /\ "cookies" \in DOMAIN response
    /\ hostname = MailGoogleCom
    /\ Cookie(<<"sid">>, GoogleCom, <<"/">>) \in cookieStore
    /\ Cookie(<<"sid">>, GoogleCom, EmptyStr) \in cookieStore
    /\ \/ Cookie(<<"sid">>, AccountsGoogleCom, <<"/">>) \in cookieStore
       \/ Cookie(<<"sid">>, DeepMailHost, <<"/">>) \in cookieStore
    /\ Len(response.cookies) = 1


----------------------------------------------------------------------------
(* Claims about overlapping refreshes *)

\* The action and origins updatePermissionUI can put on the button in a view
\* mode, whatever is granted.
ViewButtons(mode) ==
    IF mode = "all"
    THEN {<<allButton(h).action, allButton(h).origin>> : h \in BOOLEAN}
    ELSE UNION {{<<siteButton(state.currentHost, state.currentBaseDomain, granted,
                              computePermissionState(state.currentHost,
                                                     state.currentBaseDomain, granted)).action,
                   siteButton(state.currentHost, state.currentBaseDomain, granted,
                              computePermissionState(state.currentHost,
                                                     state.currentBaseDomain, granted)).origin>> :
                    granted \in Orderings(P)} : P \in SUBSET PopupOrigins}

\* C24: when a tab switch starts a new refresh while an earlier refresh is
\* still awaiting its permission queries, then once both refreshes have
\* completed, under every interleaving of their awaits, the permission
\* button's action and origins are the ones computed for the current view
\* mode, never those of the older refresh's view mode.
C24_ButtonOfCurrentView ==
    (pending = <<>> /\ btn.display = "block") =>
        <<btn.action, btn.origin>> \in ViewButtons(state.viewMode)


----------------------------------------------------------------------------
(* Claims about cookie removal and the operation log *)

\* The length of the log before the run: the number of its newest earlier entry.
EarlierLen ==
    IF \E k \in 1..Len(opLog) : opLog[k].type = "cookie_changed"
    THEN opLog[CHOOSE k \in 1..Len(opLog) :
                   /\ opLog[k].type = "cookie_changed"
                   /\ \A j \in 1..(k - 1) : opLog[j].type # "cookie_changed"].changeInfo
    ELSE 0

RemoveCalls == SelectSeq(chrome.calls, LAMBDA call : call[1] = "cookies.remove")

\* C25: every cookie removal that removeCookie reports as successful leaves
\* its own 'remove' entry in the operation log: after deleteAllForSite has
\* removed n cookies, with the log holding at most 500 - n entries beforehand
\* and no other writer, the log holds exactly n more entries, under every
\* interleaving of the concurrent pushLog calls; and the log never holds more
\* than 500 entries.
C25_EveryRemovalLogged ==
    /\ Len(opLog) <= LogCap
    /\ (/\ pc = "answered"
        /\ "result" \in DOMAIN response
        /\ EarlierLen + response.result.removed <= LogCap)
           => Len(opLog) = EarlierLen + response.result.removed

\* C26: the DELETE_COOKIE handler answers {ok: true} only if the cookie was
\* actually removed: when chrome.cookies.remove reports a null result, the
\* answer is {ok: false}, no 'remove' entry is written to the operation log,
\* and DELETE_COOKIES_BULK does not count that cookie in deletedCount.
C26_OkOnlyIfRemoved ==
    /\ (pc = "answered" /\ message.type = "DELETE_COOKIE" /\ Len(RemoveCalls) = 1) =>
          (RemoveCalls[1][3] = Null =>
              /\ response = [ok |-> FALSE]
              /\ \A k \in 1..Len(opLog) : opLog[k].type # "remove")
    /\ (pc = "answered" /\ message.type = "DELETE_COOKIES_BULK"
            /\ "deletedCount" \in DOMAIN response) =>
          response.deletedCount =
              Cardinality({k \in 1..Len(RemoveCalls) : RemoveCalls[k][3] # Null})

\* C27: once the popup's deleteAllForDomain holds the wildcard permission
\* '*://*.<base>/*' for a base domain (already granted, or granted when asked)
\* and no '<all_urls>' grant exists, its DELETE_ALL_FOR_SITE request for that
\* domain is carried out by the background and is never answered with
\* 'permission_denied'.
C27_WildcardSuffices ==
    (/\ pc = "answered"
     /\ message.type = "DELETE_ALL_FOR_SITE"
     /\ message.domain = baseDomain
     /\ WildcardPattern(baseDomain) \in permissions
     /\ AllUrls \notin permissions)
        => /\ "result" \in DOMAIN response
           /\ response # [error |-> "permission_denied"]


----------------------------------------------------------------------------
(* Claims about the UI store *)

Contains(s, patch) == \A i \in 1..Len(patch) : patch[i] = Keep \/ s[i] = patch[i]

\* C29: in the UI store, a storage change event that belongs to an earlier
\* write never rolls the in-memory state back: for any sequence of set calls
\* and any delivery of the resulting storage.onChanged events, get() after
\* set(p) contains p until the next set, and once all events are delivered
\* get() equals the state produced by the last set.
C29_NoRollback ==
    (pc = "store" /\ lastSet # NoSet) =>
        /\ Contains(store.state, lastSet.patch)
        /\ (store.writes = <<>> /\ store.events = <<>>) => store.state = lastSet.state


----------------------------------------------------------------------------
(* Claims about importCookies *)

SetCalls == SelectSeq(chrome.calls, LAMBDA call : call[1] = "cookies.set")

ImportTasks == {i \in 1..Len(tasks) : tasks[i].entry.type = "import"}

\* The entries that name a domain (other than '.') and a name.
Importable(c) == ~Falsy(c.domain) /\ c.domain # <<Dot>> /\ ~Falsy(c.name)

\* C30: importCookies returns {imported: n} where n is exactly the number of
\* entries of the input array for which chrome.cookies.set succeeded: an entry
\* without a domain or without a name, or whose set call fails, is skipped
\* without aborting the entries after it, n never exceeds the array length,
\* exactly one 'import' log entry carrying n is written per call, and a
\* non-array argument is rejected with an error before any cookie is set.
C30_ImportedCountsSuccesses ==
    /\ (pc = "answered" /\ "res" \in DOMAIN response) =>
          LET items == message.cookies.items
              n == response.res.imported
          IN /\ n = Cardinality({k \in 1..Len(SetCalls) : SetCalls[k][3]})
             /\ n <= Len(items)
             /\ {SetCalls[k][2] : k \in 1..Len(SetCalls)}
                    = {j \in 1..Len(items) : Importable(items[j])}
             /\ Len(SetCalls) = Cardinality({j \in 1..Len(items) : Importable(items[j])})
             /\ Cardinality(ImportTasks) = 1
             /\ \A i \in ImportTasks :
                   tasks[i].entry = ImportLogEntry(n) /\ tasks[i].at = "done"
    /\ (pc = "answered" /\ "error" \in DOMAIN response) =>
          /\ "cookies" \in DOMAIN message => ~message.cookies.isArray
          /\ SetCalls = <<>>
          /\ cookieStore = {}
          /\ tasks = <<>>

\* An import of three entries: one without a domain, one whose set call fails
\* and one that is set, in this order.
C30_Witness ==
    /\ pc = "answered"
    /\ "res" \in DOMAIN response
    /\ response.res.imported = 1
    /\ Len(message.cookies.items) = 3
    /\ ~Importable(message.cookies.items[1])
    /\ SetCalls = <<<<"cookies.set", 2, FALSE>>, <<"cookies.set", 3, TRUE>>>>

====
